---- MODULE Spec2Model ----
(***************************************************************************)
(* A model of the housing-pipeline backend: the relational store, the      *)
(* time & billing routes, the funding aggregation and matching routes and  *)
(* the SharePoint site provisioner.                                        *)
(*                                                                         *)
(* Conventions.                                                            *)
(*  - A nullable column holds None (<<>>) or Some(v) (<<v>>).              *)
(*  - A JSON request body is a function whose DOMAIN is the set of keys    *)
(*    present in the body.                                                 *)
(*  - Money is in whole dollars, hours in whole hours, a date is a string  *)
(*    'YYYY-MM-DD' on the wire and a day ordinal in the store.             *)
(*  - Time, in the provisioner, is counted in ticks of thirty seconds.     *)
(***************************************************************************)
EXTENDS Integers, Sequences, FiniteSets, TLC

VARIABLES
    clients,            \* table clients: sequence of rows, id = index
    funding_sources,    \* table funding_sources: sequence of rows, id = index
    projects,           \* table projects: sequence of rows, id = index
    applications,       \* table applications: sequence of rows, id = index
    time_entries,       \* table time_entries: set of rows (rows can be deleted)
    next_entry_id,      \* the primary-key sequence of time_entries
    response,           \* the last HTTP response sent
    azure_configured,   \* whether the AZURE_* environment variables are set
    req,                \* the create-site request each worker is handling
    groups,             \* the directory: the groups created so far, id = index
    group_calls,        \* history: POST /groups calls issued so far, per project id
    site_done,          \* history: per project id, what its last successful create-site returned
    access_token,       \* SharePointService.access_token of the service instance in use
    token_expires_at,   \* SharePointService.token_expires_at of that instance
    now,                \* datetime.now(), in ticks of one minute
    token_posts,        \* history: POSTs sent to the identity endpoint so far
    graph_calls,        \* history: authenticated calls begun so far
    bearer,             \* the credential the last authenticated call carried
    status_sent,        \* history: per application id, the status string last accepted for it
    marking,            \* the mark-invoiced transaction each worker has open
    billed              \* history: ids of the entries invoiced from an extraction, not reset since

vars == <<clients, funding_sources, projects, applications, time_entries,
          next_entry_id, response, azure_configured, req, groups, group_calls, site_done,
          access_token, token_expires_at, now, token_posts, graph_calls, bearer, status_sent,
          marking, billed>>

auth == <<access_token, token_expires_at, now, token_posts, graph_calls, bearer>>

site == <<azure_configured, req, groups, group_calls, site_done, auth, status_sent, marking, billed>>

store == <<clients, funding_sources, projects, applications, time_entries, next_entry_id>>

-----------------------------------------------------------------------------
(* Bounds of the model *)

MaxTimeEntries == 2
MaxFundingRows == 2
MaxSiteProjects == 1
MaxGroupCalls == 2
MaxLatency == 1

-----------------------------------------------------------------------------
(* Values *)

None == <<>>
Some(v) == <<v>>

\* Python's `x or 0` on a nullable number
OrZero(x) == IF x = None THEN 0 ELSE x[1]

\* Python truthiness of a nullable number: None and 0 are falsy
TruthyNum(x) == x # None /\ x[1] # 0

\* Python truthiness of a nullable string: None and '' are falsy
TruthyStr(x) == x # None /\ x[1] # ""

\* dict.get(key): None when the key is absent
Get(data, key) == IF key \in DOMAIN data THEN data[key] ELSE None

\* dict.get(key, default)
GetOr(data, key, default) == IF key \in DOMAIN data THEN data[key] ELSE Some(default)

Range(s) == {s[i] : i \in DOMAIN s}

RECURSIVE SumSeq(_)
SumSeq(s) == IF s = <<>> THEN 0 ELSE Head(s) + SumSeq(Tail(s))

\* The rows of a sequence that satisfy a test, in order
SelectRows(s, Test(_)) == SelectSeq(s, Test)

\* Session.get(id): the row with that primary key, or None
GetRow(table, id) == IF id \in DOMAIN table THEN Some(table[id]) ELSE None

\* An HTTP exchange: the route, its arguments, the status code and the JSON sent
Response(op, args, status, body) == [op |-> op, args |-> args, status |-> status, body |-> body]

Error(op, args, status, msg) == Response(op, args, status, [success |-> FALSE, error |-> msg])

\* The place in `keys` of the first key whose assignment raises, or one past the end
FirstRaising(keys, Raises(_)) ==
    IF \E i \in DOMAIN keys : Raises(keys[i])
        THEN CHOOSE i \in DOMAIN keys : Raises(keys[i]) /\ \A j \in 1..(i - 1) : ~Raises(keys[j])
        ELSE Len(keys) + 1

\* The part of a body that an update handler has assigned when it fails: the keys
\* the handler tests before place n.  A null for a NOT NULL column, which the
\* commit refuses, is left out.
AssignedBefore(data, keys, n, notnull) ==
    [ k \in { keys[i] : i \in 1..(n - 1) } \cap { d \in DOMAIN data : ~(d \in notnull /\ data[d] = None) }
        |-> data[k] ]

KeepDirty(persisted, dirty) == dirty

\* db.session.rollback(): the row is as it was persisted, the pending assignments
\* are dropped
Rollback(persisted, dirty) == persisted

-----------------------------------------------------------------------------
(* Strings that are searched: user names, as sequences of characters *)

Ann == <<"A", "n", "n">>
Bob == <<"B", "o", "b">>

UpperCase == <<"A", "B", "C", "D", "E", "F", "G", "H", "I", "J", "K", "L", "M",
               "N", "O", "P", "Q", "R", "S", "T", "U", "V", "W", "X", "Y", "Z">>
LowerCase == <<"a", "b", "c", "d", "e", "f", "g", "h", "i", "j", "k", "l", "m",
               "n", "o", "p", "q", "r", "s", "t", "u", "v", "w", "x", "y", "z">>
Digits == {"0", "1", "2", "3", "4", "5", "6", "7", "8", "9"}

\* str.lower() on one character, and the case folding of ILIKE
LowerChar(c) ==
    IF \E i \in DOMAIN UpperCase : UpperCase[i] = c
        THEN LowerCase[CHOOSE i \in DOMAIN UpperCase : UpperCase[i] = c]
        ELSE c

\* str.isalnum() on one character
IsAlnum(c) == c \in Range(UpperCase) \cup Range(LowerCase) \cup Digits

Lower(s) == [i \in DOMAIN s |-> LowerChar(s[i])]

\* column.ilike('%pat%'): pat occurs in s, ignoring case
ilike(s, pat) ==
    \E k \in 0..(Len(s) - Len(pat)) :
        \A i \in 1..Len(pat) : LowerChar(s[k + i]) = LowerChar(pat[i])

\* Python truthiness of a nullable sequence of characters
TruthySeq(x) == x # None /\ x[1] # <<>>

-----------------------------------------------------------------------------
(* Dates *)

DateStrings == {"2025-06-20", "2025-06-21", "2025-06-22"}

\* datetime.strptime(s, '%Y-%m-%d').date() raises ValueError on any other string
ValidDate(s) == s \in DateStrings

\* datetime.strptime(s, '%Y-%m-%d').date(), as the day of June 2025
strptime(s) == CASE s = "2025-06-20" -> 20 [] s = "2025-06-21" -> 21 [] s = "2025-06-22" -> 22

\* date.isoformat()
isoformat(d) == CASE d = 20 -> "2025-06-20" [] d = 21 -> "2025-06-21" [] d = 22 -> "2025-06-22"

-----------------------------------------------------------------------------
(* Time tracking: src/routes/time_tracking.py *)

DefaultHourlyRate == 125

\* Request bodies of POST /api/time-tracking/
TimeEntryBodies ==
    { [user_name |-> Some(Ann), description |-> Some("LIHTC"), hours |-> Some(8),
       date |-> Some("2025-06-20"), project_id |-> Some(1)],
      [user_name |-> Some(Bob), description |-> Some("AHP"), hours |-> Some(6),
       hourly_rate |-> Some(100), date |-> Some("2025-06-21")],
      [user_name |-> Some(Bob), description |-> Some("travel"), hours |-> Some(3),
       hourly_rate |-> Some(100), date |-> Some("2025-06-22"), is_billable |-> Some(FALSE)],
      [user_name |-> Some(Ann), description |-> Some("billed"), hours |-> Some(2),
       date |-> Some("2025-06-21"), project_id |-> Some(1), is_invoiced |-> Some(TRUE)],
      [user_name |-> Some(Ann), description |-> Some("none"), hours |-> Some(0),
       date |-> Some("2025-06-20")],
      [user_name |-> Some(Ann), description |-> Some("lost"), hours |-> Some(1),
       date |-> Some("2025-06-20"), project_id |-> Some(9)] }

\* Request bodies of PUT /api/time-tracking/<id>
TimeEntryUpdates ==
    { [is_invoiced |-> Some(FALSE)],
      [hours |-> Some(5), is_billable |-> Some(TRUE)] }

\* Request bodies of POST /api/time-tracking/mark-invoiced
MarkInvoicedBodies ==
    { [entry_ids |-> Some(S)] : S \in SUBSET {1, 2, 999} } \cup { [note |-> Some("x")] }

\* Query strings of the time-tracking reads: ?project_id=..&user_name=..
ProjectFilters == {None, Some(1)}
UserFilters == {None, Some(<<"a", "N">>)}

EntryById(id) == {e \in time_entries : e.id = id}

\* Whether the database enforces foreign keys: PostgreSQL (DATABASE_URL) does, the
\* SQLite file that main.py falls back to does not
ForeignKeys == BOOLEAN

\* A project_id column that is not null and is the id of no project
Dangling(project_id) == project_id # None /\ GetRow(projects, project_id[1]) = None

\* TimeEntry(...) built by create_time_entry from a validated body
NewTimeEntry(data, id) ==
    [ id |-> id,
      project_id |-> Get(data, "project_id"),
      user_name |-> data.user_name[1],
      description |-> data.description[1],
      hours |-> data.hours[1],
      hourly_rate |-> GetOr(data, "hourly_rate", DefaultHourlyRate)[1],
      date |-> strptime(data.date[1]),
      is_billable |-> GetOr(data, "is_billable", TRUE)[1],
      is_invoiced |-> GetOr(data, "is_invoiced", FALSE)[1] ]

create_time_entry(data) ==
    IF ~TruthySeq(Get(data, "user_name")) THEN
        /\ response' = Error("create_time_entry", data, 400, "User name is required")
        /\ UNCHANGED store
    ELSE IF ~TruthyStr(Get(data, "description")) THEN
        /\ response' = Error("create_time_entry", data, 400, "Description is required")
        /\ UNCHANGED store
    ELSE IF ~TruthyNum(Get(data, "hours")) THEN
        /\ response' = Error("create_time_entry", data, 400, "Hours is required")
        /\ UNCHANGED store
    ELSE IF ~TruthyStr(Get(data, "date")) THEN
        /\ response' = Error("create_time_entry", data, 400, "Date is required")
        /\ UNCHANGED store
    ELSE IF TruthyNum(Get(data, "project_id")) /\ GetRow(projects, data.project_id[1]) = None THEN
        /\ response' = Error("create_time_entry", data, 404, "Project not found")
        /\ UNCHANGED store
    ELSE IF ~ValidDate(data.date[1]) THEN
        /\ response' = Error("create_time_entry", data, 500, "ValueError")
        /\ UNCHANGED store
    ELSE
        LET row == NewTimeEntry(data, next_entry_id) IN
        \E enforced \in ForeignKeys :
            IF enforced /\ Dangling(row.project_id) THEN
                \* the commit raises IntegrityError
                /\ response' = Error("create_time_entry", data, 500, "IntegrityError")
                /\ UNCHANGED store
            ELSE
                /\ time_entries' = time_entries \cup {row}
                /\ next_entry_id' = next_entry_id + 1
                /\ response' = Response("create_time_entry", data, 201,
                                        [success |-> TRUE, id |-> row.id,
                                         total_amount |-> row.hours * row.hourly_rate])
                /\ UNCHANGED <<clients, funding_sources, projects, applications>>

\* The assignments of update_time_entry, field by field
UpdatedTimeEntry(e, data) ==
    [ id |-> e.id,
      project_id |-> IF "project_id" \in DOMAIN data
                        THEN (IF TruthyNum(data.project_id) THEN data.project_id ELSE None)
                        ELSE e.project_id,
      user_name |-> IF "user_name" \in DOMAIN data THEN data.user_name[1] ELSE e.user_name,
      description |-> IF "description" \in DOMAIN data THEN data.description[1] ELSE e.description,
      hours |-> IF "hours" \in DOMAIN data THEN data.hours[1] ELSE e.hours,
      hourly_rate |-> IF "hourly_rate" \in DOMAIN data THEN data.hourly_rate[1] ELSE e.hourly_rate,
      date |-> IF "date" \in DOMAIN data THEN strptime(data.date[1]) ELSE e.date,
      is_billable |-> IF "is_billable" \in DOMAIN data THEN data.is_billable[1] ELSE e.is_billable,
      is_invoiced |-> IF "is_invoiced" \in DOMAIN data THEN data.is_invoiced[1] ELSE e.is_invoiced ]

\* The keys of a body in the order update_time_entry tests them
TimeEntryKeys ==
    << "project_id", "user_name", "description", "hours", "hourly_rate", "date",
       "is_billable", "is_invoiced" >>

\* The assignments of update_time_entry that raise: float(None), strptime of a null
\* or of a malformed string
TimeEntryKeyRaises(data, k) ==
    /\ k \in DOMAIN data
    /\ \/ k \in {"hours", "hourly_rate"} /\ data[k] = None
       \/ k = "date" /\ (data.date = None \/ ~ValidDate(data.date[1]))

\* The columns of time_entries that are NOT NULL and that a body can set to null
TimeEntryNotNull == {"user_name", "description"}

\* What update_time_entry raises, in an assignment or in its commit
UpdateTimeEntryRaises(data) ==
    \/ \E k \in DOMAIN data : TimeEntryKeyRaises(data, k)
    \/ \E k \in TimeEntryNotNull \cap DOMAIN data : data[k] = None

\* The entry as update_time_entry has left it in the session when it fails
DirtyTimeEntry(e, data) ==
    UpdatedTimeEntry(e, AssignedBefore(data, TimeEntryKeys,
                                       FirstRaising(TimeEntryKeys, LAMBDA k : TimeEntryKeyRaises(data, k)),
                                       TimeEntryNotNull))

update_time_entry(entry_id, data) ==
    IF EntryById(entry_id) = {} THEN
        \* get_or_404 aborts inside the try block: the NotFound is caught below
        /\ response' = Error("update_time_entry", [id |-> entry_id, data |-> data], 500, "404 Not Found")
        /\ UNCHANGED store
    ELSE IF "project_id" \in DOMAIN data /\ TruthyNum(data.project_id)
            /\ GetRow(projects, data.project_id[1]) = None THEN
        /\ response' = Error("update_time_entry", [id |-> entry_id, data |-> data], 404, "Project not found")
        /\ UNCHANGED store
    ELSE IF UpdateTimeEntryRaises(data) THEN
        LET e == CHOOSE x \in EntryById(entry_id) : TRUE IN
        /\ response' = Error("update_time_entry", [id |-> entry_id, data |-> data], 500, "TypeError")
        /\ time_entries' = (time_entries \ {e}) \cup {Rollback(e, DirtyTimeEntry(e, data))}
        /\ UNCHANGED <<clients, funding_sources, projects, applications, next_entry_id>>
    ELSE
        LET e == CHOOSE x \in EntryById(entry_id) : TRUE
            row == UpdatedTimeEntry(e, data) IN
        /\ time_entries' = (time_entries \ {e}) \cup {row}
        /\ response' = Response("update_time_entry", [id |-> entry_id, data |-> data], 200,
                                [success |-> TRUE, id |-> row.id,
                                 total_amount |-> row.hours * row.hourly_rate])
        /\ UNCHANGED <<clients, funding_sources, projects, applications, next_entry_id>>

delete_time_entry(entry_id) ==
    IF EntryById(entry_id) = {} THEN
        /\ response' = Error("delete_time_entry", [id |-> entry_id], 500, "404 Not Found")
        /\ UNCHANGED store
    ELSE
        /\ time_entries' = time_entries \ EntryById(entry_id)
        /\ response' = Response("delete_time_entry", [id |-> entry_id], 200, [success |-> TRUE])
        /\ UNCHANGED <<clients, funding_sources, projects, applications, next_entry_id>>

\* Python truthiness of a nullable set (a JSON list of identifiers)
TruthySet(x) == x # None /\ x[1] # {}

\* query.order_by(TimeEntry.date.desc()).all(): the rows by descending date; the
\* store may return rows of equal date in any order
OrderByDateDesc(rows) ==
    { s \in [1..Cardinality(rows) -> rows] :
        /\ \A i, j \in DOMAIN s : i # j => s[i] # s[j]
        /\ \A i, j \in DOMAIN s : i < j => s[i].date >= s[j].date }

AnyBillable(e, project_id, user_name) ==
    /\ e.is_billable = TRUE
    /\ (TruthyNum(project_id) => e.project_id = project_id)
    /\ (TruthySeq(user_name) => ilike(e.user_name, user_name[1]))

\* The WHERE clause of get_invoice_data
UnbilledFilter(e, project_id, user_name) ==
    /\ e.is_billable = TRUE
    /\ e.is_invoiced = FALSE
    /\ (TruthyNum(project_id) => e.project_id = project_id)
    /\ (TruthySeq(user_name) => ilike(e.user_name, user_name[1]))

\* entry.project.name if entry.project else 'General'
InvoiceProjectName(e) ==
    IF e.project_id # None /\ e.project_id[1] \in DOMAIN projects
        THEN projects[e.project_id[1]].name
        ELSE <<"G", "e", "n", "e", "r", "a", "l">>

InvoiceItem(e) ==
    [ id |-> e.id, date |-> isoformat(e.date), project_name |-> InvoiceProjectName(e),
      description |-> e.description, hours |-> e.hours, hourly_rate |-> e.hourly_rate,
      line_total |-> e.hours * e.hourly_rate, user_name |-> e.user_name ]

get_invoice_data(project_id, user_name) ==
    \E unbilled_entries \in
         OrderByDateDesc({e \in time_entries : UnbilledFilter(e, project_id, user_name)}) :
        LET invoice_items == [i \in DOMAIN unbilled_entries |-> InvoiceItem(unbilled_entries[i])] IN
        /\ response' = Response("get_invoice_data",
                                [project_id |-> project_id, user_name |-> user_name], 200,
                                [success |-> TRUE,
                                 invoice_items |-> invoice_items,
                                 total_amount |-> SumSeq([i \in DOMAIN invoice_items |->
                                                            invoice_items[i].line_total]),
                                 total_hours |-> SumSeq([i \in DOMAIN invoice_items |->
                                                            invoice_items[i].hours]),
                                 items_count |-> Len(invoice_items)])
        /\ UNCHANGED store

\* sum([entry.hours for entry in rows])
RECURSIVE SumHours(_)
SumHours(rows) ==
    IF rows = {} THEN 0
    ELSE LET e == CHOOSE x \in rows : TRUE IN e.hours + SumHours(rows \ {e})

\* sum([entry.hours * entry.hourly_rate for entry in rows])
RECURSIVE SumAmount(_)
SumAmount(rows) ==
    IF rows = {} THEN 0
    ELSE LET e == CHOOSE x \in rows : TRUE IN e.hours * e.hourly_rate + SumAmount(rows \ {e})

\* Query strings of GET /api/time-tracking/summary: ?start_date=.. and ?end_date=..
StartDates == {None, Some("2025-06-21"), Some("soon")}
EndDates == {None, Some("2025-06-21")}

\* The filters of get_time_summary
SummaryFilter(e, user_name, project_id, start_date, end_date) ==
    /\ (TruthySeq(user_name) => ilike(e.user_name, user_name[1]))
    /\ (TruthyNum(project_id) => e.project_id = project_id)
    /\ (TruthyStr(start_date) => e.date >= strptime(start_date[1]))
    /\ (TruthyStr(end_date) => e.date <= strptime(end_date[1]))

IsBillable(e) == e.is_billable

\* if entry.is_billable and not entry.is_invoiced
IsUnbilled(e) == e.is_billable /\ ~e.is_invoiced

get_time_summary(user_name, project_id, start_date, end_date) ==
    LET args == [user_name |-> user_name, project_id |-> project_id,
                 start_date |-> start_date, end_date |-> end_date]
    IN  /\ UNCHANGED store
        /\ IF \/ TruthyStr(start_date) /\ ~ValidDate(start_date[1])
              \/ TruthyStr(end_date) /\ ~ValidDate(end_date[1]) THEN
               response' = Error("get_time_summary", args, 500, "ValueError")
           ELSE
               LET entries == {e \in time_entries :
                                 SummaryFilter(e, user_name, project_id, start_date, end_date)}
               IN  response' = Response("get_time_summary", args, 200,
                       [ success |-> TRUE,
                         total_hours |-> SumHours(entries),
                         total_billable_hours |-> SumHours({e \in entries : e.is_billable}),
                         total_amount |-> SumAmount({e \in entries : e.is_billable}),
                         total_invoiced_amount |-> SumAmount({e \in entries : e.is_invoiced}),
                         total_unbilled_amount |->
                             SumAmount({e \in entries : IsUnbilled(e)}),
                         entries_count |-> Cardinality(entries) ])

MarkAll(entries, entry_ids) == { [e EXCEPT !.is_invoiced = TRUE] : e \in entries }

\* UPDATE time_entries SET is_invoiced = true WHERE id IN (entry_ids)
MarkInvoiced(entries, entry_ids) ==
    { IF e.id \in entry_ids THEN [e EXCEPT !.is_invoiced = TRUE] ELSE e : e \in entries }

\* The rows the UPDATE matched
UpdatedCount(entries, entry_ids) == Cardinality({e \in entries : e.id \in entry_ids})

\* No transaction of a mark-invoiced request is open
NoTransaction == [pc |-> "none", entry_ids |-> {}, written |-> {}, overlaps |-> FALSE]

WholeTable(entries, entry_ids) == entries

\* TimeEntry.query.filter(TimeEntry.id.in_(entry_ids)): the rows the statement reads
\* and writes
Matched(entries, entry_ids) == {e \in entries : e.id \in entry_ids}

\* The workers other than w whose transaction is open
OpenBeside(w) == {v \in DOMAIN marking : v # w /\ marking[v].pc = "updated"}

\* The rows that the statements of the other open transactions matched: they are
\* locked until those transactions commit
LockedIds(w) ==
    UNION { marking[v].entry_ids \cap {e.id : e \in time_entries} : v \in OpenBeside(w) }

\* mark_entries_invoiced up to the commit, for a request handled while others are:
\* the UPDATE statement, which waits for the rows it matches to be unlocked
mark_invoiced_update(w, data) ==
    /\ marking[w].pc = "none"
    /\ UNCHANGED store
    /\ IF ~TruthySet(Get(data, "entry_ids")) THEN
           /\ response' = Error("mark_entries_invoiced", data, 400, "Entry IDs are required")
           /\ marking' = [marking EXCEPT ![w] =
                              [NoTransaction EXCEPT !.pc = "done"]]
       ELSE
           LET entry_ids == data.entry_ids[1] IN
           /\ entry_ids \cap LockedIds(w) = {}
           /\ marking' = [marking EXCEPT ![w] =
                  [ pc |-> "updated", entry_ids |-> entry_ids,
                    written |-> MarkInvoiced(Matched(time_entries, entry_ids), entry_ids),
                    overlaps |-> OpenBeside(w) # {} ]]
           /\ UNCHANGED response

\* db.session.commit(): the rows written become the stored ones, and the answer
mark_invoiced_commit(w) ==
    /\ marking[w].pc = "updated"
    /\ LET written == marking[w].written
           data == [entry_ids |-> Some(marking[w].entry_ids)]
       IN  /\ time_entries' =
                  {e \in time_entries : e.id \notin {f.id : f \in written}} \cup written
           /\ response' = Response("mark_entries_invoiced", data, 200,
                  [ success |-> TRUE,
                    updated_count |-> UpdatedCount(written, marking[w].entry_ids) ])
    /\ marking' = [marking EXCEPT ![w].pc = "done"]
    /\ UNCHANGED <<clients, funding_sources, projects, applications, next_entry_id>>

mark_entries_invoiced(data) ==
    IF ~TruthySet(Get(data, "entry_ids")) THEN
        /\ response' = Error("mark_entries_invoiced", data, 400, "Entry IDs are required")
        /\ UNCHANGED store
    ELSE
        /\ time_entries' = MarkInvoiced(time_entries, data.entry_ids[1])
        /\ response' = Response("mark_entries_invoiced", data, 200,
                                [success |-> TRUE,
                                 updated_count |-> UpdatedCount(time_entries, data.entry_ids[1])])
        /\ UNCHANGED <<clients, funding_sources, projects, applications, next_entry_id>>

-----------------------------------------------------------------------------
(* Enumerations: src/models/database.py *)

\* ProjectPhase(value): the member with that value; any other string raises ValueError
ProjectPhaseValues == {"Pre-Development", "Application/Financing", "Construction", "Lease-Up/Compliance"}

ProjectPhase(value) ==
    CASE value = "Pre-Development" -> "PRE_DEVELOPMENT"
      [] value = "Application/Financing" -> "APPLICATION_FINANCING"
      [] value = "Construction" -> "CONSTRUCTION"
      [] value = "Lease-Up/Compliance" -> "LEASE_UP_COMPLIANCE"

\* ApplicationStatus(value): the member with that value; any other string raises ValueError
ApplicationStatusValues == {"Draft", "Submitted", "Under Review", "Approved", "Denied", "Withdrawn"}

ApplicationStatus(value) ==
    CASE value = "Draft" -> "DRAFT"
      [] value = "Submitted" -> "SUBMITTED"
      [] value = "Under Review" -> "UNDER_REVIEW"
      [] value = "Approved" -> "APPROVED"
      [] value = "Denied" -> "DENIED"
      [] value = "Withdrawn" -> "WITHDRAWN"

StatusName(member) == member

\* status.value
StatusValue(member) ==
    CASE member = "DRAFT" -> "Draft"
      [] member = "SUBMITTED" -> "Submitted"
      [] member = "UNDER_REVIEW" -> "Under Review"
      [] member = "APPROVED" -> "Approved"
      [] member = "DENIED" -> "Denied"
      [] member = "WITHDRAWN" -> "Withdrawn"

ApplicationStatusMembers == {ApplicationStatus(v) : v \in ApplicationStatusValues}

\* FundingSourceType(value): the member with that value; any other string raises ValueError
FundingSourceTypeValues ==
    {"LIHTC 9%", "LIHTC 4%", "FHLB AHP", "ORCA", "HOME", "PDLP", "Congressional/CIP"}

FundingSourceType(value) ==
    CASE value = "LIHTC 9%" -> "LIHTC_9_PERCENT"
      [] value = "LIHTC 4%" -> "LIHTC_4_PERCENT"
      [] value = "FHLB AHP" -> "FHLB_AHP"
      [] value = "ORCA" -> "ORCA"
      [] value = "HOME" -> "HOME"
      [] value = "PDLP" -> "PDLP"
      [] value = "Congressional/CIP" -> "CONGRESSIONAL_CIP"

\* type.value
TypeValue(member) ==
    CASE member = "LIHTC_9_PERCENT" -> "LIHTC 9%"
      [] member = "LIHTC_4_PERCENT" -> "LIHTC 4%"
      [] member = "FHLB_AHP" -> "FHLB AHP"
      [] member = "ORCA" -> "ORCA"
      [] member = "HOME" -> "HOME"
      [] member = "PDLP" -> "PDLP"
      [] member = "CONGRESSIONAL_CIP" -> "Congressional/CIP"

-----------------------------------------------------------------------------
(* The rows committed by seed_database before it fails: src/models/seed_data.py *)

SeedClients ==
    << [id |-> 1, name |-> "Polk County Community Development Corporation", organization |-> "Polk CDC"],
       [id |-> 2, name |-> "Geller, Silvis & Associates Inc.", organization |-> "GS&A"] >>

FundingSourceRow(id, name, type, min, max, active) ==
    [ id |-> id, name |-> name, type |-> type, award_amount_min |-> min,
      award_amount_max |-> max, is_active |-> active, application_deadline |-> None ]

SeedFundingSources ==
    << FundingSourceRow(1, "9% Low-Income Housing Tax Credit", "LIHTC_9_PERCENT",
                        Some(500000), Some(5000000), TRUE),
       FundingSourceRow(2, "Federal Home Loan Bank AHP", "FHLB_AHP",
                        Some(100000), Some(2000000), TRUE),
       FundingSourceRow(3, "ORCA Predevelopment Loan Program", "ORCA",
                        Some(50000), Some(500000), TRUE),
       FundingSourceRow(4, "HOME Investment Partnerships Program", "HOME",
                        Some(200000), Some(1500000), TRUE),
       FundingSourceRow(5, "Predevelopment Loan Program", "PDLP",
                        Some(25000), Some(300000), TRUE),
       FundingSourceRow(6, "Congressional Community Project Funding", "CONGRESSIONAL_CIP",
                        Some(500000), Some(5000000), TRUE) >>

-----------------------------------------------------------------------------
(* Projects: src/routes/projects.py *)

AssignOrNull(data, key, old) == Get(data, key)

\* The value a body gives a column, for a key present in the body; the column's
\* value otherwise
Assign(data, key, old) == IF key \in DOMAIN data THEN data[key] ELSE old

\* Project(...) built by create_project from a validated body
NewProject(data, id) ==
    [ id |-> id,
      name |-> data.name[1],
      city |-> Get(data, "city"),
      state |-> Get(data, "state"),
      phase |-> IF TruthyStr(Get(data, "phase")) THEN ProjectPhase(data.phase[1])
                                                  ELSE "PRE_DEVELOPMENT",
      project_type |-> Get(data, "project_type"),
      population_type |-> Get(data, "population_type"),
      total_units |-> Get(data, "total_units"),
      total_cost |-> Get(data, "total_cost"),
      funding_gap |-> Some(0),
      client_id |-> data.client_id,
      sharepoint_site_url |-> Get(data, "sharepoint_site_url"),
      sharepoint_email |-> Get(data, "sharepoint_email") ]

create_project(data) ==
    IF ~TruthySeq(Get(data, "name")) THEN
        /\ response' = Error("create_project", data, 400, "Project name is required")
        /\ UNCHANGED store
    ELSE IF ~TruthyNum(Get(data, "client_id")) THEN
        /\ response' = Error("create_project", data, 400, "Client ID is required")
        /\ UNCHANGED store
    ELSE IF GetRow(clients, data.client_id[1]) = None THEN
        /\ response' = Error("create_project", data, 404, "Client not found")
        /\ UNCHANGED store
    ELSE IF TruthyStr(Get(data, "phase")) /\ data.phase[1] \notin ProjectPhaseValues THEN
        /\ response' = Error("create_project", data, 500, "ValueError")
        /\ UNCHANGED store
    ELSE
        LET row == NewProject(data, Len(projects) + 1) IN
        /\ projects' = Append(projects, row)
        /\ response' = Response("create_project", data, 201,
                                [success |-> TRUE, id |-> row.id, name |-> row.name])
        /\ UNCHANGED <<clients, funding_sources, applications, time_entries, next_entry_id>>

\* The assignments of update_project, field by field
UpdatedProject(row, data) ==
    [ id |-> row.id,
      name |-> IF "name" \in DOMAIN data THEN data.name[1] ELSE row.name,
      city |-> Assign(data, "city", row.city),
      state |-> Assign(data, "state", row.state),
      phase |-> IF "phase" \in DOMAIN data THEN ProjectPhase(data.phase[1]) ELSE row.phase,
      project_type |-> Assign(data, "project_type", row.project_type),
      population_type |-> Assign(data, "population_type", row.population_type),
      total_units |-> Assign(data, "total_units", row.total_units),
      total_cost |-> Assign(data, "total_cost", row.total_cost),
      funding_gap |-> row.funding_gap,
      client_id |-> row.client_id,
      sharepoint_site_url |-> Assign(data, "sharepoint_site_url", row.sharepoint_site_url),
      sharepoint_email |-> Assign(data, "sharepoint_email", row.sharepoint_email) ]

\* The keys of a body in the order update_project tests them
ProjectKeys ==
    << "name", "city", "state", "phase", "project_type", "population_type",
       "total_units", "total_cost", "sharepoint_site_url", "sharepoint_email" >>

\* The assignment of update_project that raises: ProjectPhase of a null or unknown value
ProjectKeyRaises(data, k) ==
    /\ k = "phase"
    /\ "phase" \in DOMAIN data
    /\ (data.phase = None \/ data.phase[1] \notin ProjectPhaseValues)

\* The column of projects that is NOT NULL and that a body can set to null
ProjectNotNull == {"name"}

\* What update_project raises, in an assignment or in its commit
UpdateProjectRaises(data) ==
    \/ ProjectKeyRaises(data, "phase")
    \/ "name" \in DOMAIN data /\ data.name = None

\* The project as update_project has left it in the session when it fails
DirtyProject(row, data) ==
    UpdatedProject(row, AssignedBefore(data, ProjectKeys,
                                       FirstRaising(ProjectKeys, LAMBDA k : ProjectKeyRaises(data, k)),
                                       ProjectNotNull))

update_project(project_id, data) ==
    IF GetRow(projects, project_id) = None THEN
        /\ response' = Error("update_project", [id |-> project_id, data |-> data], 500, "404 Not Found")
        /\ UNCHANGED store
    ELSE IF UpdateProjectRaises(data) THEN
        /\ response' = Error("update_project", [id |-> project_id, data |-> data], 500, "ValueError")
        /\ projects' = [projects EXCEPT ![project_id] = Rollback(@, DirtyProject(@, data))]
        /\ UNCHANGED <<clients, funding_sources, applications, time_entries, next_entry_id>>
    ELSE
        LET row == UpdatedProject(projects[project_id], data) IN
        /\ projects' = [projects EXCEPT ![project_id] = row]
        /\ response' = Response("update_project", [id |-> project_id, data |-> data], 200,
                                [success |-> TRUE, id |-> row.id, name |-> row.name])
        /\ UNCHANGED <<clients, funding_sources, applications, time_entries, next_entry_id>>

\* project.applications: the project's applications, in primary-key order
ProjectApplications(project_id) ==
    SelectSeq(applications, LAMBDA a : a.project_id = project_id)

\* sum([app.awarded_amount or 0 for app in project.applications])
TotalAwarded(project_id) ==
    LET apps == ProjectApplications(project_id) IN
    SumSeq([i \in DOMAIN apps |-> OrZero(apps[i].awarded_amount)])

\* sum([app.requested_amount or 0 for app in project.applications])
TotalRequested(project_id) ==
    LET apps == ProjectApplications(project_id) IN
    SumSeq([i \in DOMAIN apps |-> OrZero(apps[i].requested_amount)])

RequestedGap(project) == OrZero(project.total_cost) - TotalRequested(project.id)

\* funding_gap = (project.total_cost or 0) - total_awarded
FundingGap(project) == OrZero(project.total_cost) - TotalAwarded(project.id)

\* The applications listed by get_project
ApplicationSummaries(project_id) ==
    LET apps == ProjectApplications(project_id) IN
    [ i \in DOMAIN apps |->
        [ id |-> apps[i].id, funding_source_id |-> apps[i].funding_source_id,
          status |-> StatusValue(apps[i].status),
          requested_amount |-> apps[i].requested_amount,
          awarded_amount |-> apps[i].awarded_amount ] ]

\* One element of the project lists of get_projects and get_client
ProjectSummary(project) ==
    [ id |-> project.id, name |-> project.name, total_units |-> project.total_units,
      total_cost |-> project.total_cost, funding_secured |-> TotalAwarded(project.id),
      funding_gap |-> FundingGap(project) ]

\* The WHERE clause of get_projects
ProjectFilter(project, phase, client_id) ==
    /\ (TruthyStr(phase) => project.phase = ProjectPhase(phase[1]))
    /\ (TruthyNum(client_id) => project.client_id = client_id)

get_projects(phase, client_id) ==
    /\ UNCHANGED store
    /\ IF TruthyStr(phase) /\ phase[1] \notin ProjectPhaseValues THEN
           response' = Error("get_projects", [phase |-> phase, client_id |-> client_id],
                             500, "ValueError")
       ELSE
           LET rows == SelectSeq(projects, LAMBDA q : ProjectFilter(q, phase, client_id)) IN
           response' = Response("get_projects", [phase |-> phase, client_id |-> client_id], 200,
                                [success |-> TRUE,
                                 data |-> [i \in DOMAIN rows |-> ProjectSummary(rows[i])],
                                 count |-> Len(rows)])

get_project(project_id) ==
    /\ UNCHANGED store
    /\ IF GetRow(projects, project_id) = None THEN
           response' = Error("get_project", [id |-> project_id], 500, "404 Not Found")
       ELSE
           LET project == projects[project_id] IN
           response' = Response("get_project", [id |-> project_id], 200,
                                [success |-> TRUE,
                                 id |-> project.id,
                                 total_cost |-> project.total_cost,
                                 funding_secured |-> TotalAwarded(project.id),
                                 funding_requested |-> TotalRequested(project.id),
                                 funding_gap |-> FundingGap(project),
                                 sharepoint_site_url |-> project.sharepoint_site_url,
                                 sharepoint_email |-> project.sharepoint_email,
                                 applications |-> ApplicationSummaries(project.id)])

\* src/routes/clients.py
get_client(client_id) ==
    /\ UNCHANGED store
    /\ IF GetRow(clients, client_id) = None THEN
           response' = Error("get_client", [id |-> client_id], 500, "404 Not Found")
       ELSE
           LET rows == SelectSeq(projects, LAMBDA q : q.client_id = Some(client_id)) IN
           response' = Response("get_client", [id |-> client_id], 200,
                                [success |-> TRUE,
                                 id |-> client_id,
                                 projects |-> [i \in DOMAIN rows |-> ProjectSummary(rows[i])]])

-----------------------------------------------------------------------------
(* Applications: src/routes/applications.py *)

\* A date key of a body: None when absent, null or empty, else the parsed date
ParsedDate(data, key) ==
    IF TruthyStr(Get(data, key)) THEN Some(strptime(data[key][1])) ELSE None

\* strptime raises on a date key that is present, non-empty and malformed
DateRaises(data, key) == TruthyStr(Get(data, key)) /\ ~ValidDate(data[key][1])

\* Application(...) built by create_application from a validated body
NewApplication(data, id) ==
    [ id |-> id,
      project_id |-> data.project_id[1],
      funding_source_id |-> data.funding_source_id[1],
      status |-> IF TruthyStr(Get(data, "status")) THEN ApplicationStatus(data.status[1])
                                                   ELSE "DRAFT",
      requested_amount |-> Get(data, "requested_amount"),
      awarded_amount |-> Get(data, "awarded_amount"),
      submission_date |-> ParsedDate(data, "submission_date"),
      decision_date |-> ParsedDate(data, "decision_date") ]

create_application(data) ==
    IF ~TruthyNum(Get(data, "project_id")) THEN
        /\ response' = Error("create_application", data, 400, "Project ID is required")
        /\ UNCHANGED store
    ELSE IF ~TruthyNum(Get(data, "funding_source_id")) THEN
        /\ response' = Error("create_application", data, 400, "Funding source ID is required")
        /\ UNCHANGED store
    ELSE IF GetRow(projects, data.project_id[1]) = None THEN
        /\ response' = Error("create_application", data, 404, "Project not found")
        /\ UNCHANGED store
    ELSE IF GetRow(funding_sources, data.funding_source_id[1]) = None THEN
        /\ response' = Error("create_application", data, 404, "Funding source not found")
        /\ UNCHANGED store
    ELSE IF \/ DateRaises(data, "submission_date")
            \/ DateRaises(data, "decision_date")
            \/ TruthyStr(Get(data, "status")) /\ data.status[1] \notin ApplicationStatusValues THEN
        /\ response' = Error("create_application", data, 500, "ValueError")
        /\ UNCHANGED store
    ELSE
        LET row == NewApplication(data, Len(applications) + 1) IN
        /\ applications' = Append(applications, row)
        /\ response' = Response("create_application", data, 201, [success |-> TRUE, id |-> row.id])
        /\ UNCHANGED <<clients, funding_sources, projects, time_entries, next_entry_id>>

\* The assignments of update_application, field by field
UpdatedApplication(row, data) ==
    [ id |-> row.id,
      project_id |-> row.project_id,
      funding_source_id |-> row.funding_source_id,
      status |-> IF "status" \in DOMAIN data THEN ApplicationStatus(data.status[1]) ELSE row.status,
      requested_amount |-> Assign(data, "requested_amount", row.requested_amount),
      awarded_amount |-> Assign(data, "awarded_amount", row.awarded_amount),
      submission_date |-> IF "submission_date" \in DOMAIN data
                             THEN ParsedDate(data, "submission_date") ELSE row.submission_date,
      decision_date |-> IF "decision_date" \in DOMAIN data
                           THEN ParsedDate(data, "decision_date") ELSE row.decision_date ]

\* The keys of a body in the order update_application tests them
ApplicationKeys ==
    << "status", "requested_amount", "awarded_amount", "submission_date", "decision_date" >>

\* The assignments of update_application that raise
ApplicationKeyRaises(data, k) ==
    \/ k = "status" /\ "status" \in DOMAIN data
         /\ (data.status = None \/ data.status[1] \notin ApplicationStatusValues)
    \/ k \in {"submission_date", "decision_date"} /\ DateRaises(data, k)

\* What update_application raises before its commit
UpdateApplicationRaises(data) == \E k \in DOMAIN data : ApplicationKeyRaises(data, k)

\* The application as update_application has left it in the session when it fails
DirtyApplication(row, data) ==
    UpdatedApplication(row, AssignedBefore(data, ApplicationKeys,
                                           FirstRaising(ApplicationKeys,
                                                        LAMBDA k : ApplicationKeyRaises(data, k)),
                                           {}))

update_application(application_id, data) ==
    IF GetRow(applications, application_id) = None THEN
        /\ response' = Error("update_application", [id |-> application_id, data |-> data],
                             500, "404 Not Found")
        /\ UNCHANGED store
    ELSE IF UpdateApplicationRaises(data) THEN
        /\ response' = Error("update_application", [id |-> application_id, data |-> data],
                             500, "ValueError")
        /\ applications' = [applications EXCEPT ![application_id] =
                                Rollback(@, DirtyApplication(@, data))]
        /\ UNCHANGED <<clients, funding_sources, projects, time_entries, next_entry_id>>
    ELSE
        LET row == UpdatedApplication(applications[application_id], data) IN
        /\ applications' = [applications EXCEPT ![application_id] = row]
        /\ response' = Response("update_application", [id |-> application_id, data |-> data],
                                200, [success |-> TRUE, id |-> row.id])
        /\ UNCHANGED <<clients, funding_sources, projects, time_entries, next_entry_id>>

\* get_application
get_application(application_id) ==
    /\ UNCHANGED store
    /\ IF GetRow(applications, application_id) = None THEN
           response' = Error("get_application", [id |-> application_id], 500, "404 Not Found")
       ELSE
           LET app == applications[application_id] IN
           response' = Response("get_application", [id |-> application_id], 200,
               [ success |-> TRUE,
                 id |-> app.id,
                 project |-> [id |-> projects[app.project_id].id,
                              name |-> projects[app.project_id].name],
                 funding_source |-> [id |-> funding_sources[app.funding_source_id].id,
                                     type |-> TypeValue(funding_sources[app.funding_source_id].type)],
                 status |-> StatusValue(app.status),
                 requested_amount |-> app.requested_amount,
                 awarded_amount |-> app.awarded_amount,
                 submission_date |-> IF app.submission_date # None
                                        THEN Some(isoformat(app.submission_date[1])) ELSE None,
                 decision_date |-> IF app.decision_date # None
                                      THEN Some(isoformat(app.decision_date[1])) ELSE None ])

\* Application.query.filter(Application.status == status).count()
StatusCount(status) == Len(SelectSeq(applications, LAMBDA a : a.status = status))

\* round(n / d, 0) of a non-negative ratio, ties to even, as Python's round()
RoundHalfEven(n, d) ==
    LET q == n \div d
        r == n % d
    IN  IF 2 * r > d THEN q + 1
        ELSE IF 2 * r < d THEN q
        ELSE IF q % 2 = 0 THEN q ELSE q + 1

AlwaysDivides(total_applications) == TRUE

\* The condition under which get_application_stats divides
StatsDivides(total_applications) == total_applications > 0

\* round(success_rate, 1), in tenths of a percent
SuccessRateTenths(approved_applications, total_applications) ==
    IF StatsDivides(total_applications)
        THEN RoundHalfEven(approved_applications * 1000, total_applications)
        ELSE 0

get_application_stats ==
    /\ UNCHANGED store
    /\ LET total_applications == Len(applications)
           approved_applications == StatusCount("APPROVED")
       IN  IF StatsDivides(total_applications) /\ total_applications = 0 THEN
               \* approved_applications / 0 raises ZeroDivisionError
               response' = Error("get_application_stats", <<>>, 500, "ZeroDivisionError")
           ELSE
               response' = Response("get_application_stats", <<>>, 200,
                   [success |-> TRUE,
                    status_distribution |->
                        [v \in ApplicationStatusValues |-> StatusCount(ApplicationStatus(v))],
                    total_requested |-> SumSeq([i \in DOMAIN applications |->
                                                  OrZero(applications[i].requested_amount)]),
                    total_awarded |-> SumSeq([i \in DOMAIN applications |->
                                                OrZero(applications[i].awarded_amount)]),
                    success_rate |-> SuccessRateTenths(approved_applications, total_applications),
                    total_applications |-> total_applications])

-----------------------------------------------------------------------------
(* Funding sources: src/routes/funding_sources.py *)

\* FundingSource(...) built by create_funding_source from a validated body
NewFundingSource(data, id) ==
    [ id |-> id,
      name |-> data.name[1],
      type |-> FundingSourceType(data.type[1]),
      award_amount_min |-> Get(data, "award_amount_min"),
      award_amount_max |-> Get(data, "award_amount_max"),
      is_active |-> GetOr(data, "is_active", TRUE)[1],
      application_deadline |-> ParsedDate(data, "application_deadline") ]

create_funding_source(data) ==
    IF ~TruthyStr(Get(data, "name")) THEN
        /\ response' = Error("create_funding_source", data, 400, "Funding source name is required")
        /\ UNCHANGED store
    ELSE IF ~TruthyStr(Get(data, "type")) THEN
        /\ response' = Error("create_funding_source", data, 400, "Funding source type is required")
        /\ UNCHANGED store
    ELSE IF DateRaises(data, "application_deadline") \/ data.type[1] \notin FundingSourceTypeValues THEN
        /\ response' = Error("create_funding_source", data, 500, "ValueError")
        /\ UNCHANGED store
    ELSE
        LET row == NewFundingSource(data, Len(funding_sources) + 1) IN
        /\ funding_sources' = Append(funding_sources, row)
        /\ response' = Response("create_funding_source", data, 201,
                                [success |-> TRUE, id |-> row.id, name |-> row.name])
        /\ UNCHANGED <<clients, projects, applications, time_entries, next_entry_id>>

\* The assignments of update_funding_source, field by field
UpdatedFundingSource(row, data) ==
    [ id |-> row.id,
      name |-> IF "name" \in DOMAIN data THEN data.name[1] ELSE row.name,
      type |-> IF "type" \in DOMAIN data THEN FundingSourceType(data.type[1]) ELSE row.type,
      award_amount_min |-> Assign(data, "award_amount_min", row.award_amount_min),
      award_amount_max |-> Assign(data, "award_amount_max", row.award_amount_max),
      is_active |-> IF "is_active" \in DOMAIN data THEN data.is_active[1] ELSE row.is_active,
      application_deadline |-> IF "application_deadline" \in DOMAIN data
                                  THEN ParsedDate(data, "application_deadline")
                                  ELSE row.application_deadline ]

\* The keys of a body in the order update_funding_source tests them
FundingSourceKeys ==
    << "name", "type", "application_deadline", "award_amount_min", "award_amount_max",
       "is_active" >>

\* The assignments of update_funding_source that raise
FundingSourceKeyRaises(data, k) ==
    \/ k = "type" /\ "type" \in DOMAIN data
         /\ (data.type = None \/ data.type[1] \notin FundingSourceTypeValues)
    \/ k = "application_deadline" /\ DateRaises(data, k)

\* The column of funding_sources that is NOT NULL and that a body can set to null
FundingSourceNotNull == {"name"}

\* What update_funding_source raises, in an assignment or in its commit
UpdateFundingSourceRaises(data) ==
    \/ \E k \in DOMAIN data : FundingSourceKeyRaises(data, k)
    \/ "name" \in DOMAIN data /\ data.name = None

\* The source as update_funding_source has left it in the session when it fails
DirtyFundingSource(row, data) ==
    UpdatedFundingSource(row, AssignedBefore(data, FundingSourceKeys,
                                             FirstRaising(FundingSourceKeys,
                                                          LAMBDA k : FundingSourceKeyRaises(data, k)),
                                             FundingSourceNotNull))

update_funding_source(source_id, data) ==
    IF GetRow(funding_sources, source_id) = None THEN
        /\ response' = Error("update_funding_source", [id |-> source_id, data |-> data],
                             500, "404 Not Found")
        /\ UNCHANGED store
    ELSE IF UpdateFundingSourceRaises(data) THEN
        /\ response' = Error("update_funding_source", [id |-> source_id, data |-> data],
                             500, "ValueError")
        /\ funding_sources' = [funding_sources EXCEPT ![source_id] =
                                   Rollback(@, DirtyFundingSource(@, data))]
        /\ UNCHANGED <<clients, projects, applications, time_entries, next_entry_id>>
    ELSE
        LET row == UpdatedFundingSource(funding_sources[source_id], data) IN
        /\ funding_sources' = [funding_sources EXCEPT ![source_id] = row]
        /\ response' = Response("update_funding_source", [id |-> source_id, data |-> data],
                                200, [success |-> TRUE, id |-> row.id, name |-> row.name])
        /\ UNCHANGED <<clients, projects, applications, time_entries, next_entry_id>>

-----------------------------------------------------------------------------
(* The matching engine: get_funding_recommendations, src/routes/ai_chat.py *)

TopN == 5

\* FundingSource.query.filter(FundingSource.is_active == True).all()
ActiveSources == SelectSeq(funding_sources, LAMBDA f : f.is_active = TRUE)

\* [app.funding_source_id for app in project.applications]
AppliedSourceIds(project_id) ==
    {a.funding_source_id : a \in Range(ProjectApplications(project_id))}

AllActiveSources(project_id) == ActiveSources

\* [source for source in all_sources if source.id not in applied_source_ids]
AvailableSources(project_id) ==
    SelectSeq(ActiveSources, LAMBDA f : f.id \notin AppliedSourceIds(project_id))

UnitRule(project, source) ==
    /\ TypeValue(source.type) = "LIHTC 9%"
    /\ TruthyNum(project.total_units)
    /\ project.total_units[1] >= 20

PopulationRule(project, source) ==
    /\ TypeValue(source.type) = "FHLB AHP"
    /\ project.population_type = Some("Family")

ConstructionRule(project, source) ==
    /\ TypeValue(source.type) = "HOME"
    /\ project.project_type \in {Some("New Construction"), Some("Rehabilitation")}

\* if source.award_amount_min and source.award_amount_max: ... min <= funding_gap <= max
AmountRule(project, source) ==
    /\ TruthyNum(source.award_amount_min)
    /\ TruthyNum(source.award_amount_max)
    /\ source.award_amount_min[1] <= FundingGap(project)
    /\ FundingGap(project) <= source.award_amount_max[1]

MatchScore(project, source) ==
    (IF UnitRule(project, source) THEN 30 ELSE 0)
    + (IF PopulationRule(project, source) THEN 25 ELSE 0)
    + (IF ConstructionRule(project, source) THEN 20 ELSE 0)
    + (IF AmountRule(project, source) THEN 25 ELSE 0)

MatchReasons(project, source) ==
    (IF UnitRule(project, source) THEN <<"unit count">> ELSE <<>>)
    \o (IF PopulationRule(project, source) THEN <<"family housing">> ELSE <<>>)
    \o (IF ConstructionRule(project, source) THEN <<"construction">> ELSE <<>>)
    \o (IF AmountRule(project, source) THEN <<"award range">> ELSE <<>>)

Recommendation(project, source) ==
    [ funding_source |-> [id |-> source.id, name |-> source.name, type |-> TypeValue(source.type)],
      match_score |-> MatchScore(project, source),
      reasons |-> MatchReasons(project, source) ]

\* The candidates appended by the loop: those with match_score > 0, in iteration order
Candidates(project) ==
    LET available == AvailableSources(project.id)
        all == [i \in DOMAIN available |-> Recommendation(project, available[i])]
    IN  SelectSeq(all, LAMBDA c : c.match_score > 0)

\* One step of the stable descending sort: x goes after every element whose score
\* is at least its own
InsertByScore(sorted, x) ==
    LET before == SelectSeq(sorted, LAMBDA y : y.match_score >= x.match_score)
        after == SelectSeq(sorted, LAMBDA y : y.match_score < x.match_score)
    IN  before \o <<x>> \o after

\* recommendations.sort(key=lambda x: x['match_score'], reverse=True)
RECURSIVE SortByScore(_)
SortByScore(recs) ==
    IF recs = <<>> THEN <<>>
    ELSE InsertByScore(SortByScore(SubSeq(recs, 1, Len(recs) - 1)), recs[Len(recs)])

AllRecommendations(recs) == recs

\* recommendations[:5]
TopRecommendations(recs) == SubSeq(recs, 1, IF Len(recs) < TopN THEN Len(recs) ELSE TopN)

get_funding_recommendations(project_id) ==
    /\ UNCHANGED store
    /\ IF GetRow(projects, project_id) = None THEN
           response' = Error("get_funding_recommendations", [id |-> project_id], 500, "404 Not Found")
       ELSE
           LET project == projects[project_id] IN
           response' = Response("get_funding_recommendations", [id |-> project_id], 200,
               [success |-> TRUE,
                recommendations |-> TopRecommendations(SortByScore(Candidates(project))),
                total_available_sources |-> Len(AvailableSources(project_id))])

-----------------------------------------------------------------------------
(* The SharePoint provisioner: src/routes/sharepoint.py and                *)
(* src/services/sharepoint_service.py                                      *)
(*                                                                         *)
(* A create-site request is handled in steps, one per call of the Graph    *)
(* API, because other requests are served while it waits for the site.     *)
(* The Graph API is the environment: each call draws its answer from the   *)
(* answers the API can give.  A site resource it returns carries a         *)
(* non-empty webUrl.                                                       *)

\* The threads of the server that handle create-site requests
Workers == {1, 2}

\* The thread at work when the create-site requests come in one after the other;
\* the other routes are served while it waits
OneWorker == {1}

\* max_wait_minutes = 10, in ticks of thirty seconds
WaitBudget == 20

\* time.sleep(30), in ticks
SleepTicks == 1

\* The clock of a request stops counting once it is past every deadline
ClockCap == WaitBudget + SleepTicks + MaxLatency

Tick(elapsed, d) == IF elapsed + d > ClockCap THEN ClockCap ELSE elapsed + d

\* mail_nickname[:64]
NicknameMax == 64

\* AZURE_TENANT_ID
TenantId == <<"p", "c", "d", "c", ".", "o", "r", "g">>

\* Request bodies of POST /api/sharepoint/projects/<id>/create-site
CreateSiteBodies == { [owner_user_id |-> Some("owner-1")], [note |-> Some("x")] }

\* Request bodies of POST /api/sharepoint/projects/<id>/add-member
AddMemberBodies == { [user_id |-> Some("user-1")] }

\* The answers of the Graph API
FolderCounts == {0, 8}
GroupAnswers == {"created", "error"}
SiteAnswers == {"site", "empty", "not_found", "error"}

\* A worker that is handling no request
Idle ==
    [ pc |-> "idle", project_id |-> 0, group_id |-> 0, mail_nickname |-> <<>>,
      funding_sources |-> <<>>, elapsed |-> 0, only404 |-> FALSE, site_info |-> None ]

\* ''.join(c.lower() for c in project_name if c.isalnum())[:64]
MailNickname(project_name) ==
    LET kept == SelectSeq(project_name, IsAlnum)
        lowered == Lower(kept)
    IN  SubSeq(lowered, 1, IF Len(lowered) < NicknameMax THEN Len(lowered) ELSE NicknameMax)

\* tenant_id.split('.')[0]
TenantPrefix(tenant_id) ==
    IF \E i \in DOMAIN tenant_id : tenant_id[i] = "."
        THEN SubSeq(tenant_id, 1, (CHOOSE i \in DOMAIN tenant_id :
                                      /\ tenant_id[i] = "."
                                      /\ \A j \in 1..(i - 1) : tenant_id[j] # ".") - 1)
        ELSE tenant_id

\* f"{mail_nickname}@{tenant_id.split('.')[0]}.onmicrosoft.com"
SharePointEmail(mail_nickname) ==
    mail_nickname \o <<"@">> \o TenantPrefix(TenantId) \o <<".onmicrosoft.com">>

\* The webUrl of the site the API provisions for a group
WebUrl(mail_nickname) == <<"https://pcdc.sharepoint.com/sites/">> \o mail_nickname

\* [app.funding_source.name for app in project.applications if app.funding_source]
FundingSourceNames(project_id) ==
    LET apps == SelectSeq(ProjectApplications(project_id),
                          LAMBDA a : a.funding_source_id \in DOMAIN funding_sources)
    IN  [i \in DOMAIN apps |-> funding_sources[apps[i].funding_source_id].name]

BaseFolders ==
    << "Project Planning", "Financial Documents", "Legal & Compliance",
       "Construction Documents", "Marketing & Leasing", "Environmental Reports",
       "Permits & Approvals", "Team Communications" >>

\* get_default_folder_structure: the eight base folders, then one numbered folder
\* for each name of the list, from 09 on
get_default_folder_structure(names) ==
    [i \in DOMAIN BaseFolders |-> [number |-> i, title |-> <<BaseFolders[i]>>]]
    \o [i \in DOMAIN names |-> [number |-> 8 + i, title |-> <<names[i], "Application">>]]

NoSiteCheck(project) == FALSE

\* The idempotency guard: if project.sharepoint_site_url
SiteExists(project) == TruthySeq(project.sharepoint_site_url)

\* db.session.commit(): the attributes that are mapped columns are written to the row
Flush(row, attrs) == [c \in DOMAIN row |-> IF c \in DOMAIN attrs THEN attrs[c] ELSE row[c]]

\* Reading an attribute of a freshly loaded row: a column gives its value, any other
\* name raises AttributeError
HasAttr(row, name) == name \in DOMAIN row

GroupCallsTotal == SumSeq([p \in 1..MaxSiteProjects |-> group_calls[p]])

CreateSiteArgs(project_id) == [project_id |-> project_id]

CreateSiteFailure(project_id, msg) ==
    Error("create_site", CreateSiteArgs(project_id), 500, msg)

\* create_project_sharepoint_site up to the first wait: the checks of the route,
\* then create_project_group (POST /groups)
create_site_begin(w, project_id, data, answer) ==
    /\ req[w].pc = "idle"
    /\ UNCHANGED <<store, azure_configured, auth, status_sent, marking, billed>>
    /\ IF GetRow(projects, project_id) = None THEN
           \* get_or_404 aborts inside the try block
           /\ response' = CreateSiteFailure(project_id, "404 Not Found")
           /\ UNCHANGED <<req, groups, group_calls, site_done>>
       ELSE IF SiteExists(projects[project_id]) THEN
           /\ response' = Error("create_site", CreateSiteArgs(project_id), 400,
                                "SharePoint site already exists for this project")
           /\ UNCHANGED <<req, groups, group_calls, site_done>>
       ELSE IF ~TruthyStr(Get(data, "owner_user_id")) THEN
           /\ response' = Error("create_site", CreateSiteArgs(project_id), 400,
                                "owner_user_id is required")
           /\ UNCHANGED <<req, groups, group_calls, site_done>>
       ELSE IF ~azure_configured THEN
           /\ response' = CreateSiteFailure(project_id, "Azure credentials not configured")
           /\ UNCHANGED <<req, groups, group_calls, site_done>>
       ELSE
           /\ group_calls' = [group_calls EXCEPT ![project_id] = @ + 1]
           /\ UNCHANGED site_done
           /\ IF answer = "created" THEN
                  LET mail_nickname == MailNickname(projects[project_id].name) IN
                  /\ groups' = Append(groups, [project_id |-> project_id,
                                               mail_nickname |-> mail_nickname])
                  /\ req' = [req EXCEPT ![w] =
                                [ pc |-> "polling", project_id |-> project_id,
                                  group_id |-> Len(groups) + 1,
                                  mail_nickname |-> mail_nickname,
                                  funding_sources |-> FundingSourceNames(project_id),
                                  elapsed |-> 0, only404 |-> TRUE, site_info |-> None ]]
                  /\ UNCHANGED response
              ELSE
                  /\ response' = CreateSiteFailure(project_id, "HTTPError")
                  /\ UNCHANGED <<req, groups>>

PollForever(elapsed) == TRUE

AnyFailure(answer) == answer \in {"not_found", "error"}

\* except requests.exceptions.HTTPError as e: if e.response.status_code == 404
NotFound(answer) == answer = "not_found"

Retry(r) == [r EXCEPT !.pc = "polling", !.elapsed = 0]

\* except Exception as e: the route rolls back and answers; the request is over
Abort(r) == Idle

\* while datetime.now() < end_time
PollOpen(elapsed) == elapsed < WaitBudget

\* One turn of the loop of wait_for_sharepoint_site: the test of the deadline, then
\* get_sharepoint_site, which takes `latency` ticks to answer
wait_for_sharepoint_site(w, answer, latency) ==
    /\ req[w].pc = "polling"
    /\ UNCHANGED <<store, azure_configured, auth, status_sent, marking, billed, groups, group_calls, site_done>>
    /\ LET r == req[w]
           args == CreateSiteArgs(r.project_id)
       IN  IF ~PollOpen(r.elapsed) THEN
               \* return None, and create_complete_project_site raises
               /\ response' = Error("create_site", args, 500,
                                    "SharePoint site provisioning timed out")
               /\ req' = [req EXCEPT ![w] = [Abort(r) EXCEPT !.only404 = r.only404]]
           ELSE IF answer = "site" THEN
               /\ req' = [req EXCEPT ![w] =
                             [r EXCEPT !.pc = "folders", !.only404 = FALSE,
                                       !.site_info = Some([webUrl |-> WebUrl(r.mail_nickname)])]]
               /\ UNCHANGED response
           ELSE IF answer = "empty" THEN
               \* a 2xx answer without content: site_info is {}, the loop goes on at once
               /\ req' = [req EXCEPT ![w] =
                             [r EXCEPT !.only404 = FALSE, !.elapsed = Tick(r.elapsed, latency)]]
               /\ UNCHANGED response
           ELSE IF NotFound(answer) THEN
               \* time.sleep(30), then the loop goes on
               /\ req' = [req EXCEPT ![w] =
                             [r EXCEPT !.elapsed = Tick(r.elapsed, latency + SleepTicks)]]
               /\ UNCHANGED response
           ELSE
               \* any other failure of the call is raised to the route
               /\ response' = Error("create_site", args, 500, "HTTPError")
               /\ req' = [req EXCEPT ![w] = Abort(r)]

\* The rest of create_project_sharepoint_site: create_folder_structure, in which
\* the API creates `created` of the folders and refuses the others (or, with
\* `raised`, a call fails otherwise than by an HTTP error), the result of
\* create_complete_project_site, the assignments to the project and the commit
create_site_finish(w, created, raised) ==
    /\ req[w].pc = "folders"
    /\ UNCHANGED <<clients, funding_sources, applications, time_entries, next_entry_id,
                   azure_configured, auth, status_sent, marking, billed, groups, group_calls>>
    /\ LET r == req[w]
           args == CreateSiteArgs(r.project_id)
           site_result ==
               [ group_id |-> r.group_id,
                 sharepoint_site_url |-> r.site_info[1].webUrl,
                 sharepoint_email |-> SharePointEmail(r.mail_nickname) ]
       IN  /\ created \in 0..Len(get_default_folder_structure(r.funding_sources))
           /\ req' = [req EXCEPT ![w] = IF raised THEN Abort(r) ELSE Idle]
           /\ IF raised THEN
                  /\ response' = Error("create_site", args, 500, "ConnectionError")
                  /\ UNCHANGED <<projects, site_done>>
              ELSE
                  /\ projects' = [projects EXCEPT ![r.project_id] =
                         Flush(@, [ sharepoint_site_url |-> Some(site_result.sharepoint_site_url),
                                    sharepoint_email |-> Some(site_result.sharepoint_email),
                                    sharepoint_group_id |-> Some(site_result.group_id) ])]
                  /\ site_done' = [site_done EXCEPT ![r.project_id] =
                                      Some(site_result @@ [intact |-> TRUE])]
                  /\ response' = Response("create_site", args, 200,
                         [ success |-> TRUE, project_id |-> r.project_id,
                           group_id |-> site_result.group_id,
                           sharepoint_site_url |-> site_result.sharepoint_site_url,
                           sharepoint_email |-> site_result.sharepoint_email,
                           folders_created |-> created ])

add_project_team_member(project_id, data, added) ==
    /\ UNCHANGED <<store, site>>
    /\ LET args == [project_id |-> project_id, data |-> data] IN
       IF GetRow(projects, project_id) = None THEN
           response' = Error("add_member", args, 500, "404 Not Found")
       ELSE IF ~TruthySeq(projects[project_id].sharepoint_site_url) THEN
           response' = Error("add_member", args, 400, "No SharePoint site exists for this project")
       ELSE IF ~TruthyStr(Get(data, "user_id")) THEN
           response' = Error("add_member", args, 400, "user_id is required")
       ELSE IF ~HasAttr(projects[project_id], "sharepoint_group_id") THEN
           \* project.sharepoint_group_id raises AttributeError
           response' = Error("add_member", args, 500, "AttributeError")
       ELSE IF projects[project_id].sharepoint_group_id = None THEN
           response' = Error("add_member", args, 400, "No SharePoint group ID found for this project")
       ELSE IF added THEN
           response' = Response("add_member", args, 200,
                                [success |-> TRUE, project_id |-> project_id,
                                 group_id |-> projects[project_id].sharepoint_group_id])
       ELSE
           response' = Error("add_member", args, 500, "Failed to add team member")

\* request.files of POST /api/sharepoint/projects/<id>/upload-document: the name of
\* the part 'file', if there is one
UploadFiles == { None, Some(""), Some("plan.pdf") }

\* upload_project_document; `uploaded` is whether the PUT of upload_file succeeds
upload_project_document(project_id, file, uploaded) ==
    /\ UNCHANGED <<store, site>>
    /\ LET args == [project_id |-> project_id, file |-> file] IN
       IF GetRow(projects, project_id) = None THEN
           response' = Error("upload_document", args, 500, "404 Not Found")
       ELSE IF ~TruthySeq(projects[project_id].sharepoint_site_url) THEN
           response' = Error("upload_document", args, 400, "No SharePoint site exists for this project")
       ELSE IF file = None THEN
           response' = Error("upload_document", args, 400, "No file uploaded")
       ELSE IF file[1] = "" THEN
           response' = Error("upload_document", args, 400, "No file selected")
       ELSE IF ~HasAttr(projects[project_id], "sharepoint_group_id") THEN
           \* project.sharepoint_group_id raises AttributeError
           response' = Error("upload_document", args, 500, "AttributeError")
       ELSE IF projects[project_id].sharepoint_group_id = None THEN
           response' = Error("upload_document", args, 400, "No SharePoint group ID found for this project")
       ELSE IF uploaded THEN
           response' = Response("upload_document", args, 200,
                                [success |-> TRUE, project_id |-> project_id,
                                 file_name |-> file[1]])
       ELSE
           \* raise_for_status in upload_file
           response' = Error("upload_document", args, 500, "HTTPError")

get_project_sharepoint_info(project_id) ==
    /\ UNCHANGED <<store, site>>
    /\ IF GetRow(projects, project_id) = None THEN
           response' = Error("sharepoint_info", [project_id |-> project_id], 500, "404 Not Found")
       ELSE
           LET project == projects[project_id] IN
           response' = Response("sharepoint_info", [project_id |-> project_id], 200,
                                [success |-> TRUE, project_id |-> project.id,
                                 sharepoint_site_url |-> project.sharepoint_site_url,
                                 sharepoint_email |-> project.sharepoint_email,
                                 has_sharepoint_site |-> TruthySeq(project.sharepoint_site_url)])

-----------------------------------------------------------------------------
(* The state after start-up.  The server starts only on a store that holds  *)
(* a project: on any other store seed_database commits its clients and its  *)
(* funding sources and then raises on its first Project(...).  The store at *)
(* start-up is such a store: the rows one run of seed_database committed,   *)
(* and the projects `rows`.                                                 *)

NoRequest == Response("startup", <<>>, 0, [success |-> TRUE])

InitStore(rows) ==
    /\ clients = SeedClients
    /\ funding_sources = SeedFundingSources
    /\ projects = rows
    /\ applications = <<>>
    /\ time_entries = {}
    /\ next_entry_id = 1
    /\ response = NoRequest

InitSite ==
    /\ req = [w \in Workers |-> Idle]
    /\ groups = <<>>
    /\ group_calls = [p \in 1..MaxSiteProjects |-> 0]
    /\ site_done = [p \in 1..MaxSiteProjects |-> None]
    /\ access_token = None
    /\ token_expires_at = None
    /\ now = 0
    /\ token_posts = 0
    /\ graph_calls = 0
    /\ bearer = None
    /\ status_sent = <<>>
    /\ marking = [w \in Workers |-> NoTransaction]
    /\ billed = {}

-----------------------------------------------------------------------------
(* The provisioner, with the project routes that write the columns it reads *)

MillName == <<"M", "i", "l", "l", " ", "S", "t", ".", "4">>
PresetUrl == <<"https://pcdc.sharepoint.com/sites/oak">>

\* The projects the provisioner is asked about: rows created by POST /api/projects/
SiteProjects ==
    [ i \in 1..MaxSiteProjects |->
        NewProject([name |-> Some(MillName), client_id |-> Some(1),
                    city |-> Some("Dallas"), state |-> Some("OR")], i) ]

\* Request bodies of PUT /api/projects/<id> used with the provisioner
SiteProjectUpdates ==
    { [sharepoint_site_url |-> None], [sharepoint_site_url |-> Some(PresetUrl)] }

\* History: a project whose stored URL a request clears forgets its last site; a
\* request that writes the URL or the email leaves the record no longer as the
\* provisioner wrote it
SiteDoneAfterUpdate(project_id, data) ==
    IF response'.status # 200 \/ site_done[project_id] = None THEN site_done
    ELSE IF "sharepoint_site_url" \in DOMAIN data /\ ~TruthySeq(data.sharepoint_site_url)
        THEN [site_done EXCEPT ![project_id] = None]
    ELSE IF "sharepoint_site_url" \in DOMAIN data \/ "sharepoint_email" \in DOMAIN data
        THEN [site_done EXCEPT ![project_id] = Some([@[1] EXCEPT !.intact = FALSE])]
    ELSE site_done

InitSiteSpec ==
    /\ InitStore(SiteProjects)
    /\ InitSite
    /\ azure_configured \in BOOLEAN

SiteUpdateProject ==
    \E project_id \in 1..MaxSiteProjects, data \in SiteProjectUpdates :
        /\ update_project(project_id, data)
        /\ site_done' = SiteDoneAfterUpdate(project_id, data)
        /\ UNCHANGED <<azure_configured, auth, status_sent, marking, billed, req, groups, group_calls>>

SiteBegin ==
    /\ GroupCallsTotal < MaxGroupCalls
    /\ \E w \in OneWorker, project_id \in 1..MaxSiteProjects,
          data \in CreateSiteBodies, answer \in GroupAnswers :
            create_site_begin(w, project_id, data, answer)

SitePoll(w) ==
    \E answer \in SiteAnswers, latency \in 0..MaxLatency :
        wait_for_sharepoint_site(w, answer, latency)

SiteFinish ==
    \E w \in OneWorker, created \in FolderCounts, raised \in BOOLEAN :
        create_site_finish(w, created, raised)

SiteAddMember ==
    \E project_id \in 1..MaxSiteProjects, data \in AddMemberBodies, added \in BOOLEAN :
        add_project_team_member(project_id, data, added)

SiteUpload ==
    \E project_id \in 1..MaxSiteProjects, file \in UploadFiles, uploaded \in BOOLEAN :
        upload_project_document(project_id, file, uploaded)

NextSite ==
    \/ SiteUpdateProject
    \/ SiteBegin
    \/ \E w \in OneWorker : SitePoll(w)
    \/ SiteFinish
    \/ SiteAddMember

SpecSite == InitSiteSpec /\ [][NextSite]_vars

\* The thread that handles a request keeps running
SpecSiteFair == SpecSite /\ \A w \in Workers : WF_vars(SitePoll(w))

-----------------------------------------------------------------------------
(* Properties of the provisioner *)

SiteAlreadyExists == "SharePoint site already exists for this project"
TimedOut == "SharePoint site provisioning timed out"

\* The error message of a response, if it is a failure
ErrorOf(r) == IF "error" \in DOMAIN r.body THEN r.body.error ELSE ""

\* A step in which worker w accepts a create-site request on project p and goes on
\* to wait for its site
Accepts(w, p) == req[w].pc = "idle" /\ req'[w].pc = "polling" /\ req'[w].project_id = p

\* A step that sends a new response of route op
Answered(op) == response'.op = op /\ (response.op # op \/ response' # response)

\* A step that answers a create-site request on project p as it comes in
AnswersAtOnce(p) ==
    /\ req' = req
    /\ Answered("create_site")
    /\ response'.args.project_id = p

\* C1: once a create-site request on a project has succeeded, and until a request
\* clears the stored site URL, every create-site request that comes in for the
\* project is rejected with status 400 and no POST /groups call is made for it.
C1_Idempotent ==
    [][ \A p \in 1..MaxSiteProjects :
            site_done[p] # None =>
                /\ group_calls'[p] = group_calls[p]
                /\ \A g \in DOMAIN groups' \ DOMAIN groups : groups'[g].project_id # p
                /\ \A w \in Workers : ~Accepts(w, p)
                /\ AnswersAtOnce(p) =>
                       /\ response'.status = 400
                       /\ ErrorOf(response') = SiteAlreadyExists ]_vars

\* A second create-site request on a provisioned project has been rejected; one
\* group was asked for
C1_Witness ==
    /\ response.op = "create_site"
    /\ response.status = 400
    /\ ErrorOf(response) = SiteAlreadyExists
    /\ site_done[response.args.project_id] # None
    /\ group_calls[response.args.project_id] = 1
    /\ Len(groups) = 1

\* C2: a wait in which every answer so far was "not found" either ends with the
\* time-out failure or gets another answer; it never goes on past the budget, and
\* it never ends in success.
C2_PollTimesOut ==
    /\ [](\A w \in Workers :
              req[w].pc = "polling" /\ req[w].only404 => req[w].elapsed < ClockCap)
    /\ [][ \A w \in Workers :
               req[w].pc = "polling" /\ req[w].only404 /\ req[w].elapsed > 0
               /\ req'[w].pc # "polling" /\ req'[w].only404 =>
                   /\ ~PollOpen(req[w].elapsed)
                   /\ req'[w].pc = "idle"
                   /\ response'.status = 500
                   /\ ErrorOf(response') = TimedOut
                   /\ projects' = projects ]_vars
    /\ \A w \in Workers :
           (req[w].pc = "polling" /\ req[w].only404)
               ~> (\/ req[w].pc = "idle" /\ req[w].only404 /\ ErrorOf(response) = TimedOut
                   \/ ~req[w].only404)

\* A request has timed out after nothing but "not found" answers
C2_Witness ==
    /\ response.op = "create_site"
    /\ response.status = 500
    /\ ErrorOf(response) = TimedOut
    /\ \E w \in Workers : req[w].pc = "idle" /\ req[w].only404
    /\ \A p \in DOMAIN projects : ~TruthySeq(projects[p].sharepoint_site_url)

\* The group identifier a project row holds, if it holds one
StoredGroupId(row) ==
    IF HasAttr(row, "sharepoint_group_id") THEN row.sharepoint_group_id ELSE None

\* C3: after a successful create-site, and while no request has written them, the
\* project row holds the site URL, the contact email and the group identifier that
\* the request returned.
C3_Persisted ==
    \A p \in DOMAIN projects :
        site_done[p] # None /\ site_done[p][1].intact =>
            /\ projects[p].sharepoint_site_url = Some(site_done[p][1].sharepoint_site_url)
            /\ projects[p].sharepoint_email = Some(site_done[p][1].sharepoint_email)
            /\ StoredGroupId(projects[p]) = Some(site_done[p][1].group_id)

\* A project has been provisioned, and add-member on it has been answered
C3_Witness ==
    /\ response.op = "add_member"
    /\ response.status = 500
    /\ ErrorOf(response) = "AttributeError"
    /\ site_done[response.args.project_id] # None
    /\ site_done[response.args.project_id][1].intact

-----------------------------------------------------------------------------
(* Time & billing *)

InitTime ==
    /\ InitStore(<< NewProject([name |-> Some(MillName), client_id |-> Some(1)], 1) >>)
    /\ InitSite
    /\ azure_configured = FALSE

TimeCreate ==
    /\ next_entry_id <= MaxTimeEntries
    /\ \E data \in TimeEntryBodies : create_time_entry(data)
    /\ UNCHANGED site

TimeUpdate ==
    /\ \E entry_id \in 1..MaxTimeEntries, data \in TimeEntryUpdates :
           update_time_entry(entry_id, data)
    /\ UNCHANGED site

TimeDelete ==
    /\ \E entry_id \in 1..MaxTimeEntries : delete_time_entry(entry_id)
    /\ UNCHANGED site

TimeInvoiceData ==
    /\ \E project_id \in ProjectFilters, user_name \in UserFilters :
           get_invoice_data(project_id, user_name)
    /\ UNCHANGED site

TimeMarkInvoiced ==
    /\ \E data \in MarkInvoicedBodies : mark_entries_invoiced(data)
    /\ UNCHANGED site

NextTime ==
    \/ TimeCreate
    \/ TimeUpdate
    \/ TimeDelete
    \/ TimeInvoiceData
    \/ TimeMarkInvoiced

SpecTime == InitTime /\ [][NextTime]_vars

-----------------------------------------------------------------------------
(* Funding: projects, funding sources and applications, the aggregates      *)
(* computed from them and the matching engine                               *)

ElmName == <<"E", "l", "m">>

\* Request bodies of POST /api/projects/
ProjectBodies ==
    { [name |-> Some(MillName), client_id |-> Some(1), project_type |-> Some("New Construction"),
       population_type |-> Some("Family"), total_units |-> Some(25), total_cost |-> Some(500000)],
      [name |-> Some(ElmName), client_id |-> Some(2), project_type |-> Some("Acquisition"),
       population_type |-> Some("Senior")],
      [name |-> Some(ElmName), client_id |-> Some(9)] }

\* Request bodies of PUT /api/projects/<id>
ProjectUpdates ==
    { [total_cost |-> None], [total_cost |-> Some(250000), total_units |-> Some(12)] }

\* Request bodies of POST /api/funding-sources/
FundingSourceBodies ==
    { [name |-> Some("City HOME"), type |-> Some("HOME"),
       award_amount_min |-> Some(0), award_amount_max |-> Some(1000000)],
      [name |-> Some("State LIHTC"), type |-> Some("LIHTC 9%")],
      [name |-> Some("Closed AHP"), type |-> Some("FHLB AHP"), is_active |-> Some(FALSE),
       award_amount_min |-> Some(100000), award_amount_max |-> Some(2000000)],
      [name |-> Some("Bogus"), type |-> Some("Grant")] }

\* Request bodies of POST /api/applications/
ApplicationBodies ==
    { [project_id |-> Some(1), funding_source_id |-> Some(1), status |-> Some("Approved"),
       requested_amount |-> Some(400000), awarded_amount |-> Some(300000)],
      [project_id |-> Some(1), funding_source_id |-> Some(2), requested_amount |-> Some(200000)],
      [project_id |-> Some(1), funding_source_id |-> Some(4), status |-> Some("Denied"),
       awarded_amount |-> Some(600000)],
      [project_id |-> Some(9), funding_source_id |-> Some(1)] }

\* Request bodies of PUT /api/applications/<id>
ApplicationUpdates ==
    { [status |-> Some("Approved"), awarded_amount |-> Some(100000)],
      [awarded_amount |-> None] }

\* Query strings of GET /api/projects/: ?phase=..&client_id=..
ProjectQueries ==
    { [phase |-> None, client_id |-> None],
      [phase |-> Some("Pre-Development"), client_id |-> Some(1)],
      [phase |-> Some("Bogus"), client_id |-> None] }

\* The rows created since start-up
FundingRows ==
    (Len(projects) - 1) + Len(applications) + (Len(funding_sources) - Len(SeedFundingSources))

\* Identifiers asked for: those of the first rows, and one of no row
RowIds == {1, 2, 9}

\* The store at start-up holds one project, created by one of the bodies above
InitFunding ==
    /\ \E data \in ProjectBodies :
           /\ GetRow(SeedClients, data.client_id[1]) # None
           /\ InitStore(<< NewProject(data, 1) >>)
    /\ InitSite
    /\ azure_configured = FALSE

FundingCreateProject ==
    /\ FundingRows < MaxFundingRows
    /\ \E data \in ProjectBodies : create_project(data)
    /\ UNCHANGED site

FundingUpdateProject ==
    /\ \E project_id \in RowIds, data \in ProjectUpdates : update_project(project_id, data)
    /\ UNCHANGED site

FundingCreateSource ==
    /\ FundingRows < MaxFundingRows
    /\ \E data \in FundingSourceBodies : create_funding_source(data)
    /\ UNCHANGED site

FundingCreateApplication ==
    /\ FundingRows < MaxFundingRows
    /\ \E data \in ApplicationBodies : create_application(data)
    /\ UNCHANGED site

FundingUpdateApplication ==
    /\ \E application_id \in RowIds, data \in ApplicationUpdates :
           update_application(application_id, data)
    /\ UNCHANGED site

FundingGetProjects ==
    /\ \E q \in ProjectQueries : get_projects(q.phase, q.client_id)
    /\ UNCHANGED site

FundingGetProject ==
    /\ \E project_id \in RowIds : get_project(project_id)
    /\ UNCHANGED site

FundingGetClient ==
    /\ \E client_id \in {1, 2, 9} : get_client(client_id)
    /\ UNCHANGED site

FundingStats ==
    /\ get_application_stats
    /\ UNCHANGED site

FundingRecommendations ==
    /\ \E project_id \in RowIds : get_funding_recommendations(project_id)
    /\ UNCHANGED site

\* The aggregates: projects and applications are written, the aggregates read
NextFunding ==
    \/ FundingCreateProject
    \/ FundingUpdateProject
    \/ FundingCreateApplication
    \/ FundingUpdateApplication
    \/ FundingGetProjects
    \/ FundingGetProject
    \/ FundingGetClient
    \/ FundingStats

SpecFunding == InitFunding /\ [][NextFunding]_vars

\* The matching engine: projects, funding sources and applications are created,
\* recommendations are asked for
NextMatch ==
    \/ FundingCreateProject
    \/ FundingCreateSource
    \/ FundingCreateApplication
    \/ FundingRecommendations

SpecMatch == InitFunding /\ [][NextMatch]_vars

-----------------------------------------------------------------------------
(* Properties of time & billing *)

\* The mark-invoiced requests that name at least one identifier
MarkRequests == { data \in MarkInvoicedBodies : TruthySet(Get(data, "entry_ids")) }

\* C4: a mark-invoiced request with a non-empty set S of identifiers succeeds; the
\* entries stored after it are those stored before it, each with is_invoiced true
\* if its id is in S and otherwise as it was; nothing else in the store changes;
\* updated_count is the number of stored entries whose id is in S, so identifiers
\* of no entry are passed over.
C4_MarkInvoiced ==
    [][ \A data \in MarkRequests :
            mark_entries_invoiced(data) =>
                LET S == data.entry_ids[1] IN
                /\ response'.status = 200
                /\ response'.body.updated_count = Cardinality({e \in time_entries : e.id \in S})
                /\ Cardinality(time_entries') = Cardinality(time_entries)
                /\ \A e \in time_entries :
                       \E f \in time_entries' :
                           /\ f.id = e.id
                           /\ f.is_invoiced = (e.id \in S \/ e.is_invoiced)
                           /\ [f EXCEPT !.is_invoiced = e.is_invoiced] = e
                /\ UNCHANGED <<clients, funding_sources, projects, applications, next_entry_id>> ]_vars

\* Identifier 999 was asked for with others: one entry was marked, another was not
C4_Witness ==
    /\ response.op = "mark_entries_invoiced"
    /\ response.status = 200
    /\ 999 \in response.args.entry_ids[1]
    /\ response.body.updated_count = 1
    /\ \E e \in time_entries : e.id \in response.args.entry_ids[1] /\ e.is_invoiced
    /\ \E e \in time_entries : e.id \notin response.args.entry_ids[1] /\ ~e.is_invoiced

\* The entries an invoice is drawn from, under the filters of the request
Unbilled(project_id, user_name) ==
    { e \in time_entries :
        /\ e.is_billable
        /\ ~e.is_invoiced
        /\ (project_id # None => e.project_id = project_id)
        /\ (user_name # None => ilike(e.user_name, user_name[1])) }

\* C5: invoice extraction answers with one item for each stored entry that is
\* billable and not invoiced and passes the filters of the request, and no other
\* item; the items are in descending order of date; each line_total is hours times
\* hourly_rate; total_amount is the sum of the line totals.
C5_InvoiceData ==
    [][ Answered("get_invoice_data") =>
            LET items == response'.body.invoice_items
                expected == Unbilled(response'.args.project_id, response'.args.user_name)
            IN  /\ response'.status = 200
                /\ Len(items) = Cardinality(expected)
                /\ {items[i].id : i \in DOMAIN items} = {e.id : e \in expected}
                /\ \A i \in DOMAIN items :
                       \E e \in expected :
                           /\ e.id = items[i].id
                           /\ items[i].line_total = e.hours * e.hourly_rate
                           /\ strptime(items[i].date) = e.date
                /\ \A i, j \in DOMAIN items :
                       i < j => strptime(items[i].date) >= strptime(items[j].date)
                /\ response'.body.total_amount
                       = SumSeq([i \in DOMAIN items |-> items[i].line_total])
                /\ UNCHANGED store ]_vars

\* An invoice of two items of different dates
C5_Witness ==
    /\ response.op = "get_invoice_data"
    /\ response.body.items_count = 2
    /\ response.body.invoice_items[1].date # response.body.invoice_items[2].date
    /\ response.body.total_amount = 8 * DefaultHourlyRate + 6 * 100

-----------------------------------------------------------------------------
(* Properties of the funding aggregates *)

\* The sum of the awards of the first n applications that are a project's
RECURSIVE AwardedUpTo(_, _)
AwardedUpTo(project_id, n) ==
    IF n = 0 THEN 0
    ELSE AwardedUpTo(project_id, n - 1)
         + (IF applications[n].project_id = project_id /\ applications[n].awarded_amount # None
               THEN applications[n].awarded_amount[1] ELSE 0)

\* total_cost, or 0 when it is unset, less the awards of all the project's applications
CostLessAwards(project) ==
    (IF project.total_cost = None THEN 0 ELSE project.total_cost[1])
    - AwardedUpTo(project.id, Len(applications))

\* C6: whatever projects and applications were created and updated, the
\* funding_gap that get_project, get_projects and get_client report for a project
\* is its total_cost (0 when unset) less the sum of the awarded amounts of its
\* applications (0 for an application without one), negative or not.
C6_FundingGap ==
    [][ /\ Answered("get_project") /\ response'.status = 200 =>
               response'.body.funding_gap = CostLessAwards(projects[response'.body.id])
        /\ Answered("get_projects") /\ response'.status = 200 =>
               \A i \in DOMAIN response'.body.data :
                   response'.body.data[i].funding_gap
                       = CostLessAwards(projects[response'.body.data[i].id])
        /\ Answered("get_client") /\ response'.status = 200 =>
               \A i \in DOMAIN response'.body.projects :
                   response'.body.projects[i].funding_gap
                       = CostLessAwards(projects[response'.body.projects[i].id]) ]_vars

\* A project without a total cost and with two applications is reported with a
\* negative gap
C6_Witness ==
    /\ response.op = "get_project"
    /\ response.status = 200
    /\ response.body.total_cost = None
    /\ Len(response.body.applications) = 2
    /\ response.body.funding_gap < 0
    /\ response.body.funding_gap = 0 - response.body.funding_secured

\* C7: the dashboard always answers with success; without applications its
\* success_rate is 0; with applications it is approved / total * 100, to one
\* decimal place (the rate is held in tenths of a percent).
C7_SuccessRate ==
    [][ Answered("get_application_stats") =>
            LET total == Len(applications)
                approved == Cardinality({i \in DOMAIN applications :
                                            applications[i].status = "APPROVED"})
                rate == response'.body.success_rate
                diff == rate * total - approved * 1000
            IN  /\ response'.status = 200
                /\ response'.body.total_applications = total
                /\ total = 0 => rate = 0
                /\ total > 0 => 2 * (IF diff < 0 THEN 0 - diff ELSE diff) <= total ]_vars

\* The dashboard of a store without applications: success, and a rate of 0
C7_Witness ==
    /\ response.op = "get_application_stats"
    /\ response.status = 200
    /\ response.body.total_applications = 0
    /\ response.body.success_rate = 0
    /\ applications = <<>>

-----------------------------------------------------------------------------
(* Properties of the matching engine *)

\* The funding sources a project may be recommended: the active ones to which it
\* has no application
Eligible(project_id) ==
    { f \in Range(funding_sources) :
        /\ f.is_active
        /\ ~\E a \in Range(applications) :
               a.project_id = project_id /\ a.funding_source_id = f.id }

\* The rule table, each rule on its own
RuleTable(project, source) ==
    << [score |-> 30,
        holds |-> /\ source.type = "LIHTC_9_PERCENT"
                  /\ project.total_units # None
                  /\ project.total_units[1] >= 20],
       [score |-> 25,
        holds |-> source.type = "FHLB_AHP" /\ project.population_type = Some("Family")],
       [score |-> 20,
        holds |-> /\ source.type = "HOME"
                  /\ project.project_type \in {Some("New Construction"), Some("Rehabilitation")}],
       [score |-> 25,
        holds |-> /\ source.award_amount_min # None
                  /\ source.award_amount_max # None
                  /\ source.award_amount_min[1] <= CostLessAwards(project)
                  /\ CostLessAwards(project) <= source.award_amount_max[1]] >>

\* The sum of the scores of the rules that hold
TableScore(project, source) ==
    LET table == RuleTable(project, source) IN
    SumSeq([i \in DOMAIN table |-> IF table[i].holds THEN table[i].score ELSE 0])

\* C8: for every project and every funding source it may be recommended, the
\* match score is the sum of the scores of the rules of the table that hold: +30
\* LIHTC 9% with at least 20 units, +25 FHLB AHP for families, +20 HOME for new
\* construction or rehabilitation, +25 when the source has a minimum and a maximum
\* award and the funding gap lies between them.
C8_ScoreIsTableSum ==
    \A i \in DOMAIN projects :
        \A source \in Eligible(projects[i].id) :
            MatchScore(projects[i], source) = TableScore(projects[i], source)

\* A source with a minimum award of 0 is recommended with the score of its type
\* rule alone, though the project's gap lies within its range
C8_Witness ==
    /\ response.op = "get_funding_recommendations"
    /\ response.status = 200
    /\ \E i \in DOMAIN response.body.recommendations :
           LET rec == response.body.recommendations[i]
               source == funding_sources[rec.funding_source.id]
               project == projects[response.args.id]
           IN  /\ source.award_amount_min = Some(0)
               /\ source.award_amount_max # None
               /\ 0 <= CostLessAwards(project)
               /\ CostLessAwards(project) <= source.award_amount_max[1]
               /\ rec.match_score = 20

\* The score of a recommended source, and its place in the order of iteration
ScoreOf(rec) == rec.match_score
PlaceOf(rec) == rec.funding_source.id

\* rec comes before a candidate of that score and place in the stable descending order
Before(rec, score, place) ==
    \/ ScoreOf(rec) > score
    \/ ScoreOf(rec) = score /\ PlaceOf(rec) < place

\* C9: the list of recommendations holds only sources of score > 0, in descending
\* order of score and, at equal scores, in the order of iteration (that of the
\* identifiers); it is the first 5 of that order, so a source of positive score is
\* left out only when 5 sources come before it.  The store thus determines the list.
C9_Ranking ==
    [][ Answered("get_funding_recommendations") /\ response'.status = 200 =>
            LET recs == response'.body.recommendations
                project == projects[response'.args.id]
                listed == {PlaceOf(recs[i]) : i \in DOMAIN recs}
            IN  /\ Len(recs) <= TopN
                /\ \A i \in DOMAIN recs :
                       /\ ScoreOf(recs[i]) > 0
                       /\ PlaceOf(recs[i]) \in DOMAIN funding_sources
                       /\ ScoreOf(recs[i]) = MatchScore(project, funding_sources[PlaceOf(recs[i])])
                /\ \A i, j \in DOMAIN recs :
                       i < j => Before(recs[i], ScoreOf(recs[j]), PlaceOf(recs[j]))
                /\ \A f \in Eligible(project.id) :
                       MatchScore(project, f) > 0 /\ f.id \notin listed =>
                           /\ Len(recs) = TopN
                           /\ \A i \in DOMAIN recs : Before(recs[i], MatchScore(project, f), f.id) ]_vars

\* Six sources score above 0: five are listed, and the one left out has the score
\* of the last one listed
C9_Witness ==
    /\ response.op = "get_funding_recommendations"
    /\ response.status = 200
    /\ Len(response.body.recommendations) = TopN
    /\ \E f \in Eligible(response.args.id) :
           /\ f.id \notin {PlaceOf(response.body.recommendations[i]) :
                              i \in DOMAIN response.body.recommendations}
           /\ MatchScore(projects[response.args.id], f)
                  = ScoreOf(response.body.recommendations[TopN])

\* C10: the sources recommended to a project are active and have no application
\* of the project, whatever its status, and the sources considered are exactly
\* those: total_available_sources counts them.
C10_Eligible ==
    [][ Answered("get_funding_recommendations") /\ response'.status = 200 =>
            LET recs == response'.body.recommendations
                eligible == Eligible(response'.args.id)
            IN  /\ \A i \in DOMAIN recs :
                       \E f \in eligible : f.id = recs[i].funding_source.id
                /\ response'.body.total_available_sources = Cardinality(eligible)
                /\ \A f \in eligible :
                       MatchScore(projects[response'.args.id], f) > 0 /\ Len(recs) < TopN =>
                           \E i \in DOMAIN recs : recs[i].funding_source.id = f.id ]_vars

\* Recommendations for a project that has an application, in a store with an
\* inactive source: neither source is listed, the others are
C10_Witness ==
    /\ response.op = "get_funding_recommendations"
    /\ response.status = 200
    /\ response.body.recommendations # <<>>
    /\ \E f \in Range(funding_sources) : ~f.is_active
    /\ \E a \in Range(applications) : a.project_id = response.args.id
    /\ response.body.total_available_sources = Len(funding_sources) - 2

-----------------------------------------------------------------------------
(* The credential of the provisioner: SharePointService._get_access_token   *)
(* and _make_graph_request.  A route builds one SharePointService for the   *)
(* request it handles, and every call of the Graph API in that request goes *)
(* through _make_graph_request of that instance.  Time is in minutes.       *)

MaxClock == 3
MaxGraphCalls == 3

\* timedelta(seconds=expires_in - 300): the five-minute buffer, in seconds
TokenBuffer == 300

\* token_data.get('expires_in', 3600)
DefaultExpiresIn == 3600

SecondsPerMinute == 60

\* The answers of the identity endpoint: token_data, with or without expires_in
\* (seconds), or a failure status
TokenAnswers ==
    { [status |-> 200, token_data |-> [access_token |-> "issued"]],
      [status |-> 200, token_data |-> [access_token |-> "issued", expires_in |-> Some(300)]],
      [status |-> 200, token_data |-> [access_token |-> "issued", expires_in |-> Some(360)]],
      [status |-> 200, token_data |-> [access_token |-> "issued", expires_in |-> Some(420)]],
      [status |-> 401, token_data |-> [error |-> "invalid_client"]] }

NeverValid == FALSE

\* if self.access_token and self.token_expires_at and datetime.now() < self.token_expires_at
TokenValid == access_token # None /\ token_expires_at # None /\ now < token_expires_at[1]

\* SharePointService(): __init__ of the instance a request is handled with
service_init ==
    /\ access_token' = None
    /\ token_expires_at' = None
    /\ UNCHANGED <<store, response, azure_configured, req, groups, group_calls, site_done,
                   status_sent, marking, billed, now, token_posts, graph_calls, bearer>>

\* _make_graph_request: _get_access_token, which posts to the identity endpoint
\* unless the cached token is valid, then the call itself with the token as bearer.
\* The endpoint issues a new token at each successful post.
make_graph_request(answer) ==
    /\ graph_calls' = graph_calls + 1
    /\ UNCHANGED <<store, response, azure_configured, req, groups, group_calls, site_done,
                   status_sent, marking, billed, now>>
    /\ IF TokenValid THEN
           /\ bearer' = access_token
           /\ UNCHANGED <<access_token, token_expires_at, token_posts>>
       ELSE
           /\ token_posts' = token_posts + 1
           /\ IF answer.status = 200 THEN
                  LET expires_in == GetOr(answer.token_data, "expires_in", DefaultExpiresIn)[1] IN
                  /\ access_token' = Some(token_posts + 1)
                  /\ token_expires_at' = Some(now + (expires_in - TokenBuffer) \div SecondsPerMinute)
                  /\ bearer' = Some(token_posts + 1)
              ELSE
                  \* raise_for_status: the call is not made
                  /\ bearer' = None
                  /\ UNCHANGED <<access_token, token_expires_at>>

TokenInit == service_init /\ graph_calls < MaxGraphCalls

TokenCall ==
    /\ graph_calls < MaxGraphCalls
    /\ \E answer \in TokenAnswers : make_graph_request(answer)

\* Time passes between two calls
TokenTick ==
    /\ now < MaxClock
    /\ now' = now + 1
    /\ UNCHANGED <<store, response, azure_configured, req, groups, group_calls, site_done,
                   status_sent, marking, billed, access_token, token_expires_at, token_posts, graph_calls, bearer>>

NextToken == TokenInit \/ TokenCall \/ TokenTick

SpecToken == InitSiteSpec /\ [][NextToken]_vars

\* C11: an authenticated call posts to the identity endpoint exactly when the
\* instance holds no token or the recorded expiry (lifetime less five minutes) is
\* not in the future; any other call sends the cached token and leaves the cache
\* as it was.
C11_TokenCached ==
    [][ graph_calls' = graph_calls + 1 =>
            IF access_token = None \/ token_expires_at = None \/ now >= token_expires_at[1]
                THEN token_posts' = token_posts + 1
                ELSE /\ token_posts' = token_posts
                     /\ bearer' = access_token
                     /\ access_token' = access_token
                     /\ token_expires_at' = token_expires_at ]_vars

\* Three calls of one instance, the third after the token of the first expired:
\* two posts, and the second call reused the token
C11_Witness ==
    /\ graph_calls = 3
    /\ token_posts = 2
    /\ access_token = Some(2)
    /\ bearer = Some(2)
    /\ now > 0

-----------------------------------------------------------------------------
(* Properties of the provisioner: folders, members and documents *)

\* C12: the step of create-site that creates the folders always ends in success:
\* whatever the folder calls answer, the request is answered 200 and the project
\* row holds the site URL and the contact email of the new site.
C12_FoldersBestEffort ==
    [][ \A w \in Workers :
            req[w].pc = "folders" /\ req'[w].pc # "folders" =>
                /\ response'.op = "create_site"
                /\ response'.status = 200
                /\ projects'[req[w].project_id].sharepoint_site_url
                       = Some(req[w].site_info[1].webUrl)
                /\ projects'[req[w].project_id].sharepoint_email
                       = Some(SharePointEmail(req[w].mail_nickname)) ]_vars

\* A create-site request whose group and site were created has failed in its
\* folder step, and the project holds no site
C12_Witness ==
    /\ response.op = "create_site"
    /\ response.status = 500
    /\ ErrorOf(response) = "ConnectionError"
    /\ Len(groups) > 0
    /\ ~TruthySeq(projects[response.args.project_id].sharepoint_site_url)

\* The provisioner with the route that uploads a document
NextMembers == NextSite \/ SiteUpload

SpecMembers == InitSiteSpec /\ [][NextMembers]_vars

\* The routes that pass a request on to the group of a project
MemberRoutes == {"add_member", "upload_document"}

\* C13: add-member and upload-document on a project that has no stored site (no
\* site URL, or no stored group identifier) are answered with a client error.
C13_NoSiteRejected ==
    [][ \A op \in MemberRoutes :
            /\ Answered(op)
            /\ response'.args.project_id \in DOMAIN projects
            /\ \/ ~TruthySeq(projects[response'.args.project_id].sharepoint_site_url)
               \/ StoredGroupId(projects[response'.args.project_id]) = None
            => response'.status \in 400..499 ]_vars

\* A document was sent to a project that has a site URL and no stored group
\* identifier, and the answer is a server error
C13_Witness ==
    /\ response.op = "upload_document"
    /\ response.status = 500
    /\ ErrorOf(response) = "AttributeError"
    /\ TruthySeq(projects[response.args.project_id].sharepoint_site_url)
    /\ StoredGroupId(projects[response.args.project_id]) = None

-----------------------------------------------------------------------------
(* The status of an application, written and read back *)

\* Request bodies of POST /api/applications/: every status, no status, and a string
\* that is no status
StatusBodies ==
    { [project_id |-> Some(1), funding_source_id |-> Some(1), status |-> Some(v)] :
          v \in ApplicationStatusValues \cup {"Pending"} }
    \cup { [project_id |-> Some(1), funding_source_id |-> Some(2)] }

\* Request bodies of PUT /api/applications/<id>
StatusUpdates ==
    { [status |-> Some(v)] : v \in ApplicationStatusValues \cup {"Pending"} }
    \cup { [awarded_amount |-> Some(100000)] }

StatusCreate ==
    /\ Len(applications) < MaxFundingRows
    /\ \E data \in StatusBodies :
        /\ create_application(data)
        /\ status_sent' = IF response'.status = 201
                              THEN Append(status_sent, Get(data, "status"))
                              ELSE status_sent
    /\ UNCHANGED <<azure_configured, req, groups, group_calls, site_done, auth, marking, billed>>

StatusUpdate ==
    /\ \E application_id \in RowIds, data \in StatusUpdates :
        /\ update_application(application_id, data)
        /\ status_sent' = IF response'.status = 200 /\ "status" \in DOMAIN data
                              THEN [status_sent EXCEPT ![application_id] = data.status]
                              ELSE status_sent
    /\ UNCHANGED <<azure_configured, req, groups, group_calls, site_done, auth, marking, billed>>

StatusGet ==
    /\ \E application_id \in RowIds : get_application(application_id)
    /\ UNCHANGED site

NextStatus == StatusCreate \/ StatusUpdate \/ StatusGet

SpecStatus == InitFunding /\ [][NextStatus]_vars

\* C14: an application read back shows the status string of the last request that
\* set its status, for each of the six statuses.
C14_StatusRoundTrip ==
    [][ Answered("get_application") /\ response'.status = 200 =>
            LET sent == status_sent[response'.args.id] IN
            sent # None => /\ sent[1] \in ApplicationStatusValues
                           /\ response'.body.status = sent[1] ]_vars

\* An application created as a draft and updated to "Under Review" was read back
C14_Witness ==
    /\ response.op = "get_application"
    /\ response.status = 200
    /\ response.body.status = "Under Review"
    /\ status_sent[response.args.id] = Some("Under Review")
    /\ Len(applications) = 2
    /\ applications[1].status # applications[2].status

-----------------------------------------------------------------------------
(* The time summary *)

TimeSummary ==
    /\ \E user_name \in UserFilters, project_id \in ProjectFilters,
          start_date \in StartDates, end_date \in EndDates :
            get_time_summary(user_name, project_id, start_date, end_date)
    /\ UNCHANGED site

NextSummary == TimeCreate \/ TimeMarkInvoiced \/ TimeSummary

SpecSummary == InitTime /\ [][NextSummary]_vars

\* The entries a summary is drawn from, under the filters of the request
Summarised(args) ==
    { e \in time_entries :
        /\ (args.user_name # None => ilike(e.user_name, args.user_name[1]))
        /\ (args.project_id # None => e.project_id = args.project_id)
        /\ (args.start_date # None => e.date >= strptime(args.start_date[1]))
        /\ (args.end_date # None => e.date <= strptime(args.end_date[1])) }

\* C15: in a time summary, over the entries that pass the filters, total_hours is
\* the sum of the hours of all of them, total_amount the sum of hours times rate of
\* the billable ones, total_invoiced_amount that sum over the billable and invoiced
\* ones, total_unbilled_amount that sum over the billable and not invoiced ones.
C15_SummaryTotals ==
    [][ Answered("get_time_summary") /\ response'.status = 200 =>
            LET entries == Summarised(response'.args)
                totals == response'.body
            IN  /\ totals.total_hours = SumHours(entries)
                /\ totals.total_amount = SumAmount({e \in entries : e.is_billable})
                /\ totals.total_invoiced_amount
                       = SumAmount({e \in entries : e.is_billable /\ e.is_invoiced})
                /\ totals.total_unbilled_amount
                       = SumAmount({e \in entries : e.is_billable /\ ~e.is_invoiced}) ]_vars

\* A summary over an entry that is invoiced and not billable
C15_Witness ==
    /\ response.op = "get_time_summary"
    /\ response.status = 200
    /\ \E e \in Summarised(response.args) : e.is_invoiced /\ ~e.is_billable
    /\ response.body.total_invoiced_amount > response.body.total_amount

-----------------------------------------------------------------------------
(* Requests on rows that do not exist *)

\* The table a route looks its identifier up in
LookupTable(op) ==
    CASE op \in {"get_project", "update_project"} -> projects
      [] op = "get_client" -> clients
      [] op = "update_application" -> applications

LookupRoutes == {"get_project", "update_project", "get_client", "update_application"}

\* C16: a request that reads or updates a project, a client or an application by
\* an identifier that no row has is answered with a client error (4xx) that says
\* what is wrong, never with a server error.
C16_MissingIsClientError ==
    [][ \A op \in LookupRoutes :
            Answered(op) /\ response'.args.id \notin DOMAIN LookupTable(op) =>
                /\ response'.status \in 400..499
                /\ ErrorOf(response') # "" ]_vars

\* A project that does not exist was asked for, and the answer is a server error
C16_Witness ==
    /\ response.op = "get_project"
    /\ response.args.id \notin DOMAIN projects
    /\ response.status = 500

-----------------------------------------------------------------------------
(* Writes that fail and writes that change part of a row *)

\* Request bodies of POST /api/projects/ that are refused
WriteProjectBodies ==
    { [name |-> Some(ElmName), client_id |-> Some(9)],
      [name |-> Some(ElmName), client_id |-> Some(1), phase |-> Some("Closed")] }

\* Request bodies of PUT /api/projects/<id>
WriteProjectUpdates ==
    { [city |-> Some("Salem")],
      [city |-> Some("Salem"), phase |-> Some("Closed")],
      [state |-> Some("WA"), name |-> None] }

\* Request bodies of POST /api/applications/
WriteApplicationBodies ==
    { [project_id |-> Some(1), funding_source_id |-> Some(1),
       requested_amount |-> Some(200000), decision_date |-> Some("2025-06-21")],
      [project_id |-> Some(1), funding_source_id |-> Some(1), decision_date |-> Some("soon")] }

\* Request bodies of PUT /api/applications/<id>
WriteApplicationUpdates ==
    { [awarded_amount |-> Some(100000)],
      [decision_date |-> None],
      [status |-> Some("Approved"), decision_date |-> Some("soon")] }

\* Request bodies of PUT /api/funding-sources/<id>
WriteSourceUpdates ==
    { [is_active |-> Some(FALSE)],
      [name |-> Some("HOME II"), type |-> Some("Grant")] }

\* Request bodies of POST /api/time-tracking/ and of PUT /api/time-tracking/<id>
WriteEntryBodies ==
    { [user_name |-> Some(Ann), description |-> Some("LIHTC"), hours |-> Some(8),
       date |-> Some("2025-06-20"), project_id |-> Some(1)],
      [user_name |-> Some(Ann), description |-> Some("LIHTC"), hours |-> Some(8),
       date |-> Some("soon")] }

WriteEntryUpdates ==
    { [is_billable |-> Some(FALSE)],
      [hours |-> Some(5), date |-> Some("soon")] }

\* The identifiers a write is addressed to: rows that exist, and one that does not
WriteIds == {1, 4, 9}

WriteCreateProject ==
    /\ \E data \in WriteProjectBodies : create_project(data)
    /\ UNCHANGED site

WriteUpdateProject ==
    /\ \E project_id \in WriteIds, data \in WriteProjectUpdates : update_project(project_id, data)
    /\ UNCHANGED site

WriteCreateApplication ==
    /\ Len(applications) < MaxFundingRows - 1
    /\ \E data \in WriteApplicationBodies : create_application(data)
    /\ UNCHANGED site

WriteUpdateApplication ==
    /\ \E application_id \in WriteIds, data \in WriteApplicationUpdates :
           update_application(application_id, data)
    /\ UNCHANGED site

WriteUpdateSource ==
    /\ \E source_id \in WriteIds, data \in WriteSourceUpdates :
           update_funding_source(source_id, data)
    /\ UNCHANGED site

WriteCreateEntry ==
    /\ next_entry_id < MaxTimeEntries
    /\ \E data \in WriteEntryBodies : create_time_entry(data)
    /\ UNCHANGED site

WriteUpdateEntry ==
    /\ \E entry_id \in WriteIds, data \in WriteEntryUpdates : update_time_entry(entry_id, data)
    /\ UNCHANGED site

NextWrites ==
    \/ WriteCreateProject
    \/ WriteUpdateProject
    \/ WriteCreateApplication
    \/ WriteUpdateApplication
    \/ WriteUpdateSource
    \/ WriteCreateEntry
    \/ WriteUpdateEntry

SpecWrites == InitSiteSpec /\ [][NextWrites]_vars

CreateRoutes == {"create_project", "create_application", "create_time_entry"}

UpdateRoutes ==
    {"update_project", "update_application", "update_funding_source", "update_time_entry"}

\* C17: a create or update request that is answered with a failure leaves every
\* table as it was before the request.
C17_FailedWriteKeepsStore ==
    [][ \A op \in CreateRoutes \cup UpdateRoutes :
            Answered(op) /\ response'.status >= 400 => UNCHANGED store ]_vars

\* An update of an application failed on its date after its status was assigned,
\* and the stored application has the status it had
C17_Witness ==
    /\ response.op = "update_application"
    /\ response.status = 500
    /\ response.args.id \in DOMAIN applications
    /\ response.args.data.status = Some("Approved")
    /\ applications[response.args.id].status = "DRAFT"

\* Every column named in `old` that the body does not name is in `new` as in `old`
Frame(old, new, data) == \A f \in DOMAIN old : f \notin DOMAIN data => new[f] = old[f]

\* The rows of a table other than row id are as they were
OthersKept(old, new, id) == DOMAIN new = DOMAIN old /\ \A i \in DOMAIN old : i # id => new[i] = old[i]

\* C18: a successful update of a project, an application, a funding source or a
\* time entry leaves every column that its body does not name as it was, and
\* changes no other row and no other table.
C18_PartialUpdate ==
    [][ /\ Answered("update_project") /\ response'.status = 200 =>
              /\ Frame(projects[response'.args.id], projects'[response'.args.id],
                       response'.args.data)
              /\ OthersKept(projects, projects', response'.args.id)
              /\ UNCHANGED <<clients, funding_sources, applications, time_entries, next_entry_id>>
        /\ Answered("update_application") /\ response'.status = 200 =>
              /\ Frame(applications[response'.args.id], applications'[response'.args.id],
                       response'.args.data)
              /\ OthersKept(applications, applications', response'.args.id)
              /\ UNCHANGED <<clients, funding_sources, projects, time_entries, next_entry_id>>
        /\ Answered("update_funding_source") /\ response'.status = 200 =>
              /\ Frame(funding_sources[response'.args.id], funding_sources'[response'.args.id],
                       response'.args.data)
              /\ OthersKept(funding_sources, funding_sources', response'.args.id)
              /\ UNCHANGED <<clients, projects, applications, time_entries, next_entry_id>>
        /\ Answered("update_time_entry") /\ response'.status = 200 =>
              /\ \A e \in time_entries :
                     \E f \in time_entries' :
                         /\ f.id = e.id
                         /\ IF e.id = response'.args.id
                               THEN Frame(e, f, response'.args.data) ELSE f = e
              /\ Cardinality(time_entries') = Cardinality(time_entries)
              /\ UNCHANGED <<clients, funding_sources, projects, applications, next_entry_id>>
      ]_vars

\* A project was updated with a body that names its city alone; the city changed
\* and the state is the one it was created with
C18_Witness ==
    /\ response.op = "update_project"
    /\ response.status = 200
    /\ DOMAIN response.args.data = {"city"}
    /\ projects[response.args.id].city = Some("Salem")
    /\ projects[response.args.id].state = Some("OR")

-----------------------------------------------------------------------------
(* Time entries: the project and the hours of the stored entries *)

\* Request bodies of POST /api/time-tracking/
EntryBodies ==
    { [user_name |-> Some(Ann), description |-> Some("LIHTC"), hours |-> Some(8),
       date |-> Some("2025-06-20"), project_id |-> Some(1)],
      [user_name |-> Some(Bob), description |-> Some("refund"), hours |-> Some(-2),
       date |-> Some("2025-06-21")],
      [user_name |-> Some(Bob), description |-> Some("office"), hours |-> Some(3),
       date |-> Some("2025-06-21"), project_id |-> Some(0)],
      [user_name |-> Some(Ann), description |-> Some("lost"), hours |-> Some(1),
       date |-> Some("2025-06-20"), project_id |-> Some(9)] }

\* Request bodies of PUT /api/time-tracking/<id>
EntryUpdates ==
    { [hours |-> Some(0)],
      [hours |-> Some(5)],
      [project_id |-> Some(9)],
      [project_id |-> Some(0)] }

EntryCreate ==
    /\ next_entry_id <= MaxTimeEntries
    /\ \E data \in EntryBodies : create_time_entry(data)
    /\ UNCHANGED site

EntryUpdate ==
    /\ \E entry_id \in RowIds, data \in EntryUpdates : update_time_entry(entry_id, data)
    /\ UNCHANGED site

EntryDelete ==
    /\ \E entry_id \in RowIds : delete_time_entry(entry_id)
    /\ UNCHANGED site

NextEntries == EntryCreate \/ EntryUpdate \/ EntryDelete

SpecEntries == InitTime /\ [][NextEntries]_vars

\* C19: no stored application and no stored time entry has a project_id that is
\* the id of no stored project.
C19_ProjectsExist ==
    /\ \A i \in DOMAIN applications : applications[i].project_id \in DOMAIN projects
    /\ \A e \in time_entries : ~Dangling(e.project_id)

\* A time entry was created with project_id 0 and is stored with it
C19_Witness ==
    /\ response.op = "create_time_entry"
    /\ response.status = 201
    /\ \E e \in time_entries : e.id = response.body.id /\ e.project_id = Some(0)

\* C20: every stored time entry has hours > 0.
C20_HoursPositive == \A e \in time_entries : e.hours > 0

\* An entry created with 8 hours was updated to 0 hours and is stored with 0
C20_Witness ==
    /\ response.op = "update_time_entry"
    /\ response.status = 200
    /\ response.args.data = [hours |-> Some(0)]
    /\ \E e \in time_entries : e.id = response.args.id /\ e.hours = 0

-----------------------------------------------------------------------------
(* Properties of the provisioner: the readiness poll and its failures *)

\* C21: in the readiness poll, within the budget, a "not found" answer keeps the
\* request waiting, its clock advanced by the time of the call and the thirty
\* seconds of sleep, and sends no response; any other failure of the call ends the
\* request at once with status 500 and the upstream error, the project unchanged,
\* and the request never reaches its folder step.
C21_PollFailures ==
    [][ \A w \in Workers, latency \in 0..MaxLatency :
            /\ wait_for_sharepoint_site(w, "not_found", latency) /\ PollOpen(req[w].elapsed) =>
                   /\ req'[w].pc = "polling"
                   /\ req'[w].elapsed = Tick(req[w].elapsed, latency + SleepTicks)
                   /\ req'[w].group_id = req[w].group_id
                   /\ response' = response
            /\ wait_for_sharepoint_site(w, "error", latency) /\ PollOpen(req[w].elapsed) =>
                   /\ req'[w].pc = "idle"
                   /\ response'.op = "create_site"
                   /\ response'.status = 500
                   /\ ErrorOf(response') = "HTTPError"
                   /\ UNCHANGED <<store, groups, group_calls, site_done>> ]_vars

\* A request whose group was created has ended with the upstream error of its
\* poll, and its project holds no site
C21_Witness ==
    /\ response.op = "create_site"
    /\ response.status = 500
    /\ ErrorOf(response) = "HTTPError"
    /\ Len(groups) = 1
    /\ GroupCallsTotal = 1
    /\ \A w \in Workers : req[w].pc = "idle"
    /\ ~TruthySeq(projects[response.args.project_id].sharepoint_site_url)

-----------------------------------------------------------------------------
(* Create-site requests handled at the same time by two threads *)

RaceBegin ==
    /\ GroupCallsTotal < MaxGroupCalls
    /\ \E w \in Workers, project_id \in 1..MaxSiteProjects,
          data \in CreateSiteBodies, answer \in GroupAnswers :
            create_site_begin(w, project_id, data, answer)

RacePoll == \E w \in Workers : SitePoll(w)

RaceFinish ==
    \E w \in Workers, created \in FolderCounts, raised \in BOOLEAN :
        create_site_finish(w, created, raised)

NextRace == RaceBegin \/ RacePoll \/ RaceFinish

SpecRace == InitSiteSpec /\ [][NextRace]_vars

\* A create-site request on project p is being handled by worker w
InFlight(w, p) == req[w].pc # "idle" /\ req[w].project_id = p

\* C22: a group-creation call is never issued for a project while another
\* create-site request on the same project is being handled.
C22_OneGroupCall ==
    [][ \A p \in 1..MaxSiteProjects :
            group_calls'[p] > group_calls[p] => \A w \in Workers : ~InFlight(w, p) ]_vars

\* Two requests on one project are in hand at the same time, each with a group of
\* its own
C22_Witness ==
    \E p \in 1..MaxSiteProjects :
        /\ \A w \in Workers : InFlight(w, p)
        /\ req[1].group_id # req[2].group_id
        /\ Cardinality({g \in DOMAIN groups : groups[g].project_id = p}) = 2

-----------------------------------------------------------------------------
(* Properties of the provisioner: a request that fails *)

\* A step in which the group-creation call of a create-site request on project p,
\* handled by worker w, fails
GroupCallFails(w, p) ==
    /\ group_calls'[p] # group_calls[p]
    /\ \E data \in CreateSiteBodies : create_site_begin(w, p, data, "error")

\* A step in which the request that worker w is handling fails: a poll is refused
\* otherwise than by 404, the budget of the poll is spent, or a folder call fails
\* otherwise than by an HTTP error
RequestFails(w) ==
    \/ \E latency \in 0..MaxLatency :
           /\ PollOpen(req[w].elapsed)
           /\ wait_for_sharepoint_site(w, "error", latency)
    \/ \E answer \in SiteAnswers, latency \in 0..MaxLatency :
           /\ ~PollOpen(req[w].elapsed)
           /\ wait_for_sharepoint_site(w, answer, latency)
    \/ \E created \in FolderCounts : create_site_finish(w, created, TRUE)

\* C23: a create-site request that fails at any step is answered 500 and leaves
\* the projects (site URL, contact email, group identifier) as they were; its
\* failing call is its last external call, and the request is over, so that
\* nothing is tried again.
C23_FailureIsFinal ==
    [][ \A w \in Workers :
            /\ \A p \in 1..MaxSiteProjects : GroupCallFails(w, p) =>
                   /\ group_calls'[p] = group_calls[p] + 1
                   /\ groups' = groups
            /\ RequestFails(w) => UNCHANGED <<groups, group_calls>>
            /\ (RequestFails(w) \/ \E p \in 1..MaxSiteProjects : GroupCallFails(w, p)) =>
                   /\ response'.op = "create_site"
                   /\ response'.status = 500
                   /\ UNCHANGED <<projects, site_done>>
                   /\ req'[w].pc = "idle"
       ]_vars

\* A request has timed out after its one group-creation call; the project is as it
\* was and nobody is at work
C23_Witness ==
    /\ response.op = "create_site"
    /\ response.status = 500
    /\ ErrorOf(response) = TimedOut
    /\ \A w \in Workers : req[w].pc = "idle"
    /\ LET p == response.args.project_id
       IN  /\ group_calls[p] = 1
           /\ \E g \in DOMAIN groups : groups[g].project_id = p
           /\ ~TruthySeq(projects[p].sharepoint_site_url)
           /\ ~TruthySeq(projects[p].sharepoint_email)
           /\ StoredGroupId(projects[p]) = None

-----------------------------------------------------------------------------
(* The provisioner on projects that have applications *)

NextFolders ==
    \/ FundingCreateApplication
    \/ SiteBegin
    \/ \E w \in OneWorker : SitePoll(w)
    \/ SiteFinish

SpecFolders == InitSiteSpec /\ [][NextFolders]_vars

\* The funding sources that project p has applied to
AppliedSources(p) ==
    { applications[i].funding_source_id : i \in { j \in DOMAIN applications :
          /\ applications[j].project_id = p
          /\ applications[j].funding_source_id \in DOMAIN funding_sources } }

\* C24: the folders that a create-site request asks for are the eight fixed
\* folders, numbered 01 to 08 in their order, followed by one folder for each
\* distinct funding source the project has applied to, numbered from 09 on.
C24_FolderTaxonomy ==
    [][ \A w \in Workers, p \in 1..MaxSiteProjects : Accepts(w, p) =>
            LET folders == get_default_folder_structure(req'[w].funding_sources)
                extra == { i \in DOMAIN folders : i > Len(BaseFolders) }
            IN  /\ \A i \in DOMAIN BaseFolders :
                       folders[i] = [number |-> i, title |-> <<BaseFolders[i]>>]
                /\ \A i \in DOMAIN folders : folders[i].number = i
                /\ Cardinality(extra) = Cardinality(AppliedSources(p))
                /\ \A s \in AppliedSources(p) : \E i \in extra :
                       folders[i].title = <<funding_sources[s].name, "Application">>
       ]_vars

\* A request is in hand whose list of funding sources names one source twice
C24_Witness ==
    \E w \in Workers :
        /\ req[w].pc # "idle"
        /\ Len(req[w].funding_sources) = 2
        /\ req[w].funding_sources[1] = req[w].funding_sources[2]
        /\ Len(get_default_folder_structure(req[w].funding_sources)) = 10

-----------------------------------------------------------------------------
(* Mark-invoiced requests handled at the same time *)

\* The entries are recorded before the invoicing begins
MarkCreate ==
    /\ \A w \in Workers : marking[w].pc = "none"
    /\ next_entry_id <= MaxTimeEntries
    /\ \E data \in TimeEntryBodies : create_time_entry(data)
    /\ UNCHANGED site

MarkUpdate ==
    /\ \E w \in Workers, data \in MarkInvoicedBodies : mark_invoiced_update(w, data)
    /\ UNCHANGED <<azure_configured, req, groups, group_calls, site_done, auth, status_sent, billed>>

MarkCommit ==
    /\ \E w \in Workers : mark_invoiced_commit(w)
    /\ UNCHANGED <<azure_configured, req, groups, group_calls, site_done, auth, status_sent, billed>>

NextMark == MarkCreate \/ MarkUpdate \/ MarkCommit

SpecMark == InitTime /\ [][NextMark]_vars

\* C25: when the mark-invoiced requests of the workers have all completed, every
\* stored entry whose id is in the set of one of them has is_invoiced true.
C25_NoLostUpdate ==
    (\A w \in Workers : marking[w].pc = "done") =>
        \A e \in time_entries :
            (\E w \in Workers : e.id \in marking[w].entry_ids) => e.is_invoiced

\* Two requests have completed whose transactions were open at the same time on
\* different entries, and both entries are invoiced
C25_Witness ==
    /\ \A w \in Workers : marking[w].pc = "done"
    /\ marking[1].entry_ids = {1, 999}
    /\ marking[2].entry_ids = {2}
    /\ marking[2].overlaps
    /\ response.args = [entry_ids |-> Some({1, 999})]
    /\ Cardinality(time_entries) = 2
    /\ \A e \in time_entries : e.is_invoiced

-----------------------------------------------------------------------------
(* Invoicing: extraction, marking, and what is extracted afterwards *)

BillingFrame == <<azure_configured, req, groups, group_calls, site_done, auth, status_sent, marking>>

\* The identifiers of the items of an invoice extraction
ItemIds(body) == { body.invoice_items[i].id : i \in DOMAIN body.invoice_items }

\* Request bodies of POST /api/time-tracking/ used with the invoicing
BillingBodies ==
    { [user_name |-> Some(Ann), description |-> Some("LIHTC"), hours |-> Some(8),
       date |-> Some("2025-06-20"), project_id |-> Some(1)],
      [user_name |-> Some(Bob), description |-> Some("AHP"), hours |-> Some(6),
       hourly_rate |-> Some(100), date |-> Some("2025-06-21")],
      [user_name |-> Some(Bob), description |-> Some("travel"), hours |-> Some(3),
       hourly_rate |-> Some(100), date |-> Some("2025-06-22"), is_billable |-> Some(FALSE)] }

BillingCreate ==
    /\ next_entry_id <= MaxTimeEntries
    /\ \E data \in BillingBodies : create_time_entry(data)
    /\ UNCHANGED site

\* GET /api/time-tracking/summary, without dates
BillingSummary ==
    /\ \E user_name \in UserFilters, project_id \in ProjectFilters :
            get_time_summary(user_name, project_id, None, None)
    /\ UNCHANGED site

\* PUT /api/time-tracking/<id>; a request that writes is_invoiced other than true
\* resets the flag of the entry
BillingUpdate ==
    /\ \E entry_id \in 1..MaxTimeEntries, data \in TimeEntryUpdates :
        /\ update_time_entry(entry_id, data)
        /\ billed' = IF /\ response'.status = 200
                        /\ "is_invoiced" \in DOMAIN data
                        /\ data.is_invoiced # Some(TRUE)
                         THEN billed \ {entry_id} ELSE billed
    /\ UNCHANGED BillingFrame

BillingDelete ==
    /\ \E entry_id \in 1..MaxTimeEntries :
        /\ delete_time_entry(entry_id)
        /\ billed' = IF response'.status = 200 THEN billed \ {entry_id} ELSE billed
    /\ UNCHANGED BillingFrame

\* POST /api/time-tracking/mark-invoiced with the identifiers that the invoice
\* extraction just answered
BillingMark ==
    /\ response.op = "get_invoice_data"
    /\ LET entry_ids == ItemIds(response.body) IN
        /\ mark_entries_invoiced([entry_ids |-> Some(entry_ids)])
        /\ billed' = IF response'.status = 200 THEN billed \cup entry_ids ELSE billed
    /\ UNCHANGED BillingFrame

NextBilling ==
    \/ BillingCreate
    \/ BillingUpdate
    \/ BillingDelete
    \/ TimeInvoiceData
    \/ BillingSummary
    \/ BillingMark

SpecBilling == InitTime /\ [][NextBilling]_vars

\* C26: the entries marked as invoiced from an invoice extraction, for as long as
\* no update resets their flag, are items of no invoice extraction answered
\* afterwards and are counted in the total_unbilled_amount of no summary answered
\* afterwards.
C26_BilledOnce ==
    [][ /\ Answered("get_invoice_data") => ItemIds(response'.body) \cap billed' = {}
        /\ (Answered("get_time_summary") /\ response'.status = 200) =>
               LET a == response'.args IN
               response'.body.total_unbilled_amount =
                   SumAmount({ e \in time_entries' :
                       /\ SummaryFilter(e, a.user_name, a.project_id, a.start_date, a.end_date)
                       /\ e.is_billable
                       /\ ~e.is_invoiced
                       /\ e.id \notin billed' }) ]_vars

\* An extraction answered after an entry was invoiced from an earlier one: it
\* lists another entry and not the invoiced one
C26_Witness ==
    /\ response.op = "get_invoice_data"
    /\ billed = {1}
    /\ ItemIds(response.body) = {2}
    /\ \E e \in time_entries : e.id = 1 /\ e.is_billable /\ e.is_invoiced

-----------------------------------------------------------------------------
(* Updates that clear a date *)

ADate == "2025-06-21"

\* Request bodies of POST /api/applications/ and of PUT /api/applications/<id>
DateApplicationBodies ==
    { [project_id |-> Some(1), funding_source_id |-> Some(1),
       submission_date |-> Some(ADate), decision_date |-> Some(ADate)] }

DateApplicationUpdates ==
    { [submission_date |-> None], [decision_date |-> None], [decision_date |-> Some(ADate)] }

\* Request bodies of PUT /api/funding-sources/<id>
DateSourceUpdates ==
    { [application_deadline |-> None], [application_deadline |-> Some(ADate)] }

\* Request bodies of POST /api/time-tracking/ and of PUT /api/time-tracking/<id>
DateEntryBodies ==
    { [user_name |-> Some(Ann), description |-> Some("LIHTC"), hours |-> Some(8),
       date |-> Some(ADate)] }

DateEntryUpdates == { [date |-> None], [date |-> Some("2025-06-22")] }

DateCreateApplication ==
    /\ Len(applications) < MaxFundingRows - 1
    /\ \E data \in DateApplicationBodies : create_application(data)
    /\ UNCHANGED site

DateUpdateApplication ==
    /\ \E application_id \in 1..MaxFundingRows, data \in DateApplicationUpdates :
           update_application(application_id, data)
    /\ UNCHANGED site

DateUpdateSource ==
    /\ \E source_id \in 1..MaxFundingRows, data \in DateSourceUpdates :
           update_funding_source(source_id, data)
    /\ UNCHANGED site

DateCreateEntry ==
    /\ next_entry_id < MaxTimeEntries
    /\ \E data \in DateEntryBodies : create_time_entry(data)
    /\ UNCHANGED site

DateUpdateEntry ==
    /\ \E entry_id \in 1..MaxTimeEntries, data \in DateEntryUpdates :
           update_time_entry(entry_id, data)
    /\ UNCHANGED site

NextDates ==
    \/ DateCreateApplication
    \/ DateUpdateApplication
    \/ DateUpdateSource
    \/ DateCreateEntry
    \/ DateUpdateEntry

SpecDates == InitSiteSpec /\ [][NextDates]_vars

\* C27: an update whose body gives null for a date field of a stored row (the
\* submission or decision date of an application, the deadline of a funding
\* source, the date of a time entry) succeeds, and the stored date is empty
\* afterwards.
C27_NullClearsDate ==
    [][ /\ \A id \in DOMAIN applications, k \in {"submission_date", "decision_date"} :
               update_application(id, k :> None) =>
                   response'.status = 200 /\ applications'[id][k] = None
        /\ \A id \in DOMAIN funding_sources :
               update_funding_source(id, [application_deadline |-> None]) =>
                   response'.status = 200 /\ funding_sources'[id].application_deadline = None
        /\ \A e \in time_entries :
               update_time_entry(e.id, [date |-> None]) =>
                   /\ response'.status = 200
                   /\ \E f \in time_entries' : f.id = e.id /\ f.date = None ]_vars

\* A request to clear the date of a time entry has been refused, and the entry has
\* its date
C27_Witness ==
    /\ response.op = "update_time_entry"
    /\ response.args.data = [date |-> None]
    /\ response.status = 500
    /\ \E e \in time_entries : e.id = response.args.id /\ e.date = strptime(ADate)

-----------------------------------------------------------------------------
(* Properties of the provisioner: the columns of a project *)

\* C28: a project that has a stored site URL also has a stored group identifier.
C28_SiteHasGroup ==
    \A p \in DOMAIN projects :
        TruthySeq(projects[p].sharepoint_site_url) => StoredGroupId(projects[p]) # None

\* A project holds a site URL that an update request wrote, and no group was ever
\* created
C28_Witness ==
    /\ groups = <<>>
    /\ response.op = "update_project"
    /\ response.status = 200
    /\ \E p \in DOMAIN projects :
        /\ projects[p].sharepoint_site_url = Some(PresetUrl)
        /\ StoredGroupId(projects[p]) = None

-----------------------------------------------------------------------------
(* The ledger: every write of time entries, and the summary *)

NextLedger ==
    \/ TimeCreate
    \/ TimeUpdate
    \/ TimeDelete
    \/ TimeMarkInvoiced
    \/ BillingSummary

SpecLedger == InitTime /\ [][NextLedger]_vars

\* C29: in every time summary, total_amount is the sum of total_invoiced_amount
\* and total_unbilled_amount.
C29_AmountsAddUp ==
    (response.op = "get_time_summary" /\ response.status = 200) =>
        response.body.total_amount
            = response.body.total_invoiced_amount + response.body.total_unbilled_amount

\* A summary over a billable entry not yet invoiced and an invoiced entry that is
\* not billable: the two parts exceed the whole
C29_Witness ==
    /\ response.op = "get_time_summary"
    /\ response.status = 200
    /\ response.body.entries_count = 2
    /\ response.body.total_unbilled_amount > 0
    /\ response.body.total_amount = response.body.total_unbilled_amount
    /\ response.body.total_invoiced_amount > 0

-----------------------------------------------------------------------------
(* Start-up: src/main.py and src/models/seed_data.py *)

\* Start-ups modelled
MaxStartups == 2

\* The rows as the store numbers them when they are inserted after `count` others
Inserted(rows, count) == [i \in DOMAIN rows |-> [rows[i] EXCEPT !.id = count + i]]

\* seed_database, run by main.py at each start-up: nothing if a project is stored;
\* otherwise the clients are committed, then the funding sources, and the
\* construction of the first project raises TypeError (sharepoint_group_id is no
\* column of Project), which ends the start-up
seed_database ==
    IF projects # <<>> THEN
        /\ response' = NoRequest
        /\ UNCHANGED store
    ELSE
        /\ clients' = clients \o Inserted(SeedClients, Len(clients))
        /\ funding_sources' = funding_sources \o Inserted(SeedFundingSources, Len(funding_sources))
        /\ response' = Error("startup", <<>>, 500, "TypeError")
        /\ UNCHANGED <<projects, applications, time_entries, next_entry_id>>

\* The database at the first start-up: the empty tables that db.create_all() makes,
\* or a database that was filled before
InitSeed ==
    /\ \/ /\ clients = <<>>
          /\ funding_sources = <<>>
          /\ projects = <<>>
          /\ applications = <<>>
          /\ time_entries = {}
          /\ next_entry_id = 1
          /\ response = NoRequest
       \/ InitStore(SiteProjects)
    /\ InitSite
    /\ azure_configured \in BOOLEAN

Startup ==
    /\ Len(clients) < MaxStartups * Len(SeedClients)
    /\ seed_database
    /\ UNCHANGED site

\* Requests are served once a start-up has run to its end
Serving == projects # <<>> /\ NextWrites

NextSeed == Startup \/ Serving

SpecSeed == InitSeed /\ [][NextSeed]_vars

\* How many rows of a table have the name of a seed row
Copies(table, row) == Cardinality({i \in DOMAIN table : table[i].name = row.name})

\* C30: after any number of start-ups, every seed row is in the store at most once.
C30_SeededOnce ==
    /\ \A i \in DOMAIN SeedClients : Copies(clients, SeedClients[i]) <= 1
    /\ \A i \in DOMAIN SeedFundingSources : Copies(funding_sources, SeedFundingSources[i]) <= 1

\* Two start-ups have failed: the clients and the funding sources are stored twice
\* and there is no project
C30_Witness ==
    /\ response = Error("startup", <<>>, 500, "TypeError")
    /\ projects = <<>>
    /\ Len(clients) = 2 * Len(SeedClients)
    /\ Len(funding_sources) = 2 * Len(SeedFundingSources)
    /\ \A i \in DOMAIN SeedClients : Copies(clients, SeedClients[i]) = 2

====
